---------------------------- MODULE Spec2Model ----------------------------
(***************************************************************************)
(* A model of ubi-manifest's dependency resolution: the RPM depsolver      *)
(* (worker/tasks/depsolver/rpm_depsolver.py), the modulemd depsolver       *)
(* (modulemd_depsolver.py) and the depsolve_task coordinator               *)
(* (worker/tasks/depsolve.py), over a small fixed content store.           *)
(*                                                                         *)
(* Strings the code takes apart (package names, file names, requirement    *)
(* names) are sequences of one-character strings, so that startswith,      *)
(* rfind, slicing and split() are computed as the code computes them.      *)
(* Repository ids are only compared for equality and stay plain strings.   *)
(***************************************************************************)
EXTENDS Integers, Sequences, FiniteSets, TLC

VARIABLES
    dpc,                    \* position of Depsolver.run
    repos,                  \* Depsolver.repos: sequence of DepsolverItem
    srpm_repos,             \* Depsolver._srpm_repos
    modulemd_dependencies,  \* Depsolver.modulemd_dependencies
    modular_rpm_filenames,  \* Depsolver._modular_rpm_filenames
    base_pkgs_only,         \* Depsolver._base_pkgs_only
    content_fts,            \* content futures of run() not yet completed
    source_rpm_fts,         \* results of the submitted get_source_pkgs calls
    output_set,             \* Depsolver.output_set
    srpm_output_set,        \* Depsolver.srpm_output_set
    provides,               \* Depsolver._provides
    requires,               \* Depsolver._requires
    unsolved,               \* Depsolver._unsolved
    to_resolve,             \* local to_resolve of run()
    missing_log,            \* names logged by _log_warnings
    base_log,               \* names logged by _log_missing_base_pkgs
    exported,               \* what Depsolver.export() returned
    mpc,                    \* position of ModularDepsolver.run
    modular_items,          \* ModularDepsolver._modular_items
    m_idx,                  \* index of the item the for loop of run() is at
    searched_modules,       \* ModularDepsolver._searched_modules
    modules,                \* ModularDepsolver.modules
    default_modulemds,      \* ModularDepsolver.default_modulemds
    rpm_dependencies,       \* ModularDepsolver.rpm_dependencies
    pending,                \* the modules argument of the next _depsolve_modules call
    ubi_population_sources, \* population_sources of each output repository
    content_set,            \* content set of each input binary repository
    ubi_config,             \* the content config found for each input content set
    flags,                  \* depsolve_task: flags
    debug_dep_map,          \* depsolve_task: debug_dep_map
    out,                    \* depsolve_task: out
    binary_out,             \* depsolve_task: out as the binary pass left it
    to_save,                \* _save: keys of data_for_redis not yet written
    store,                  \* the result store (redis)
    store_before,           \* the result store when the task started
    all_config,             \* UbiConfigLoader.all_config
    config_map,             \* UbiConfigLoader._config_map
    config_query,           \* arguments of the last get_content_config call
    config_out,             \* what the last get_content_config call found
    content_configs,        \* the content config sources and the configs they load
    request,                \* the last request the API received
    task_queue,             \* the depsolve tasks apply_async has enqueued
    response,               \* the answer to the last request
    other_out,              \* the manifests a second depsolve_task saves
    other_to_save,          \* _save of the second task: keys not yet written
    last_set,               \* the task whose set() wrote each key of the store last
    call_args,              \* the arguments of a function that is called on its own
    call_result,            \* what that call returned
    issued,                 \* content-store searches issued so far: <<kind, phase>>
    tpc                     \* position of depsolve_task ("standalone": no task)

dvars == <<dpc, repos, srpm_repos, modulemd_dependencies, modular_rpm_filenames,
           base_pkgs_only, content_fts, source_rpm_fts, output_set,
           srpm_output_set, provides, requires, unsolved, to_resolve,
           missing_log, base_log, exported>>

mvars == <<mpc, modular_items, m_idx, searched_modules, modules,
           default_modulemds, rpm_dependencies, pending>>

cvars == <<all_config, config_map, config_query, config_out>>

avars == <<content_configs, request, task_queue, response>>

jvars == <<other_out, other_to_save, last_set>>

pvars == <<call_args, call_result>>

tvars == <<ubi_population_sources, content_set, ubi_config, flags, debug_dep_map,
           out, binary_out, to_save, store, store_before, cvars, avars, jvars,
           pvars>>

vars == <<dvars, mvars, tvars, issued, tpc>>

-----------------------------------------------------------------------------
(* Python string operations on character sequences *)

\* str.startswith
StartsWith(s, p) == Len(p) <= Len(s) /\ SubSeq(s, 1, Len(p)) = p

\* a Python slice bound: negative counts from the end, then clamped
PyIndex(s, i) ==
    LET j == IF i < 0 THEN i + Len(s) ELSE i
    IN  IF j < 0 THEN 0 ELSE IF j > Len(s) THEN Len(s) ELSE j

\* s[lo:hi] with 0-based bounds
PySlice(s, lo, hi) == SubSeq(s, PyIndex(s, lo) + 1, PyIndex(s, hi))

\* str.find: 0-based index of the first c, -1 when there is none
PyFind(s, c) ==
    IF \E i \in 1..Len(s) : s[i] = c
    THEN (CHOOSE i \in 1..Len(s) : s[i] = c /\ \A j \in 1..(i - 1) : s[j] # c) - 1
    ELSE -1

\* str.rfind: 0-based index of the last c, -1 when there is none
PyRFind(s, c) ==
    IF \E i \in 1..Len(s) : s[i] = c
    THEN (CHOOSE i \in 1..Len(s) : s[i] = c /\ \A j \in (i + 1)..Len(s) : s[j] # c) - 1
    ELSE -1

\* `c in s`
Contains(s, c) == \E i \in 1..Len(s) : s[i] = c

DotRpm == <<".", "r", "p", "m">>

\* Python's None, for a string-valued field
None == <<>>

\* an empty dict
EmptyDict == [k \in {} |-> {}]

\* str.endswith
EndsWith(s, p) == Len(p) <= Len(s) /\ SubSeq(s, Len(s) - Len(p) + 1, Len(s)) = p

\* split_filename: (name, ver, rel, epoch, arch) of an rpm file name
split_filename(filename) ==
    LET f  == IF PySlice(filename, -4, Len(filename)) = DotRpm
              THEN PySlice(filename, 0, -4) ELSE filename
        arch_index  == PyRFind(f, ".")
        rel_index   == PyRFind(PySlice(f, 0, arch_index), "-")
        ver_index   == PyRFind(PySlice(f, 0, rel_index), "-")
        epoch_index == PyFind(f, ":")
    IN  [name  |-> PySlice(f, epoch_index + 1, ver_index),
         ver   |-> PySlice(f, ver_index + 1, rel_index),
         rel   |-> PySlice(f, rel_index + 1, arch_index),
         epoch |-> IF epoch_index = -1 THEN <<>> ELSE PySlice(f, 0, epoch_index),
         arch  |-> PySlice(f, arch_index + 1, Len(f))]


\* str.split(): the whitespace-separated tokens of s
RECURSIVE PySplit(_)
PySplit(s) ==
    IF s = <<>> THEN <<>>
    ELSE IF Head(s) = " " THEN PySplit(Tail(s))
    ELSE LET n == CHOOSE i \in 1..Len(s) :
                     /\ \A j \in 1..i : s[j] # " "
                     /\ (i = Len(s) \/ s[i + 1] = " ")
         IN  <<SubSeq(s, 1, n)>> \o PySplit(SubSeq(s, n + 1, Len(s)))

-----------------------------------------------------------------------------
(* RpmDependency and the EVR comparison *)

NoEvr == <<0, 0, 0>>

\* RpmDependency(name=n): no flags, no version
Dep(n) == [name |-> n, flags |-> "", evr |-> NoEvr]

\* RpmDependency(name=n, flags=f, epoch, version, release)
VDep(n, f, evr) == [name |-> n, flags |-> f, evr |-> evr]

\* rpm.labelCompare on (epoch, version, release) triples of numbers
label_compare(a, b) ==
    IF a[1] # b[1] THEN (IF a[1] < b[1] THEN -1 ELSE 1)
    ELSE IF a[2] # b[2] THEN (IF a[2] < b[2] THEN -1 ELSE 1)
    ELSE IF a[3] # b[3] THEN (IF a[3] < b[3] THEN -1 ELSE 1)
    ELSE 0

\* RELATION_CMP_MAP[flags](x, y)
RELATION_CMP_MAP(relation, x, y) ==
    CASE relation = "GT" -> label_compare(x, y) > 0
      [] relation = "GE" -> label_compare(x, y) >= 0
      [] relation = "EQ" -> label_compare(x, y) = 0
      [] relation = "LE" -> label_compare(x, y) <= 0
      [] relation = "LT" -> label_compare(x, y) < 0

\* is_requirement_resolved(req, provider)
is_requirement_resolved(req, provider) ==
    IF req.flags # ""
    THEN RELATION_CMP_MAP(req.flags, provider.evr, req.evr)
    ELSE req.name = provider.name

-----------------------------------------------------------------------------
(* Rich (boolean) dependencies *)

OPERATOR_BOOL == {<<"i", "f">>, <<"e", "l", "s", "e">>, <<"a", "n", "d">>,
                  <<"o", "r">>, <<"u", "n", "l", "e", "s", "s">>,
                  <<"w", "i", "t", "h">>,
                  <<"w", "i", "t", "h", "o", "u", "t">>}

OPERATOR_NUM == {<<"<">>, <<"<", "=">>, <<"=">>, <<">">>, <<">", "=">>}

\* re.match(regex, item) for an alternation of literals: item starts with one
ReMatch(alternatives, item) == \E a \in alternatives : StartsWith(item, a)

\* re.sub(r"^\(+|\)+$", "", item)
RECURSIVE StripOpen(_)
StripOpen(s) == IF s # <<>> /\ Head(s) = "(" THEN StripOpen(Tail(s)) ELSE s

RECURSIVE StripClose(_)
StripClose(s) ==
    IF s # <<>> /\ s[Len(s)] = ")" THEN StripClose(SubSeq(s, 1, Len(s) - 1)) ELSE s

StripPars(s) == StripClose(StripOpen(s))

\* the loop of parse_bool_deps over the tokens
RECURSIVE ParseTokens(_, _)
ParseTokens(toks, skip_next) ==
    IF toks = <<>> THEN {}
    ELSE LET item == Head(toks)
             rest == Tail(toks)
             stripped == StripPars(item)
         IN  IF skip_next THEN ParseTokens(rest, FALSE)
             ELSE IF ReMatch(OPERATOR_BOOL, item) THEN ParseTokens(rest, FALSE)
             ELSE IF ReMatch(OPERATOR_NUM, item) THEN ParseTokens(rest, TRUE)
             ELSE IF stripped = <<>> THEN ParseTokens(rest, FALSE)
             ELSE {Dep(IF Contains(stripped, "(") THEN stripped \o <<")">> ELSE stripped)}
                  \cup ParseTokens(rest, FALSE)

\* parse_bool_deps(bool_dependency)
parse_bool_deps(bool_dependency) == ParseTokens(PySplit(bool_dependency), FALSE)

-----------------------------------------------------------------------------
(* Blacklists *)

\* PackageToExclude(name, globbing, arch)
PackageToExclude(n, globbing, arch) == [name |-> n, globbing |-> globbing, arch |-> arch]

\* _is_blacklisted(package, blacklist); None counts as false
_is_blacklisted(package, blacklist) ==
    \E item \in blacklist :
        /\ IF item.globbing THEN StartsWith(package.name, item.name)
                            ELSE package.name = item.name
        /\ ~(item.arch # None /\ package.arch # item.arch)


-----------------------------------------------------------------------------
(* The content store: repositories and the units they hold *)

\* package and capability names
N_g == <<"g">>
N_p == <<"p">>
N_l == <<"l">>
N_c == <<"c">>
N_q == <<"q">>
N_h == <<"h">>
\* a file path and a rich clause
N_file == <<"/", "f">>
N_rich == <<"(", "p", " ", "o", "r", " ", "q", ")">>

\* <name>-<ver>-<rel>.<arch>.rpm
Filename(n, ver, arch) == n \o <<"-", ver, "-", "1", ".">> \o arch \o DotRpm

A_x   == <<"x">>
A_src == <<"s", "r", "c">>

\* UbiUnit(RpmUnit(...), repo): the unit and its associate_source_repo_id
RpmUnit(n, evr, arch, filename, sourcerpm, req, prov, files, repo) ==
    [name |-> n, evr |-> evr, arch |-> arch, filename |-> filename,
     sourcerpm |-> sourcerpm, requires |-> req, provides |-> prov,
     files |-> files, repo |-> repo]

\* binary input repositories r1, r2; g exists in two versions, one per repo;
\* p exists in r1 as a plain build (1) and as a modular build (3); h owns the
\* file /f that g-1 requires
U_g1 == RpmUnit(N_g, <<0, 1, 1>>, A_x, Filename(N_g, "1", A_x), Filename(N_g, "1", A_src),
                {VDep(N_c, "GE", <<0, 2, 0>>), Dep(N_file)},
                {VDep(N_g, "EQ", <<0, 1, 1>>)}, {}, "r1")
U_g2 == RpmUnit(N_g, <<0, 2, 1>>, A_x, Filename(N_g, "2", A_x), Filename(N_g, "2", A_src),
                {Dep(N_l)}, {VDep(N_g, "EQ", <<0, 2, 1>>)}, {}, "r2")
U_p1 == RpmUnit(N_p, <<0, 1, 1>>, A_x, Filename(N_p, "1", A_x), Filename(N_p, "1", A_src),
                {}, {VDep(N_p, "EQ", <<0, 1, 1>>), VDep(N_c, "EQ", <<0, 1, 1>>)},
                {}, "r1")
U_p3 == RpmUnit(N_p, <<0, 3, 1>>, A_x, Filename(N_p, "3", A_x), Filename(N_p, "3", A_src),
                {}, {VDep(N_p, "EQ", <<0, 3, 1>>), VDep(N_c, "EQ", <<0, 3, 1>>)},
                {}, "r1")
U_l1 == RpmUnit(N_l, <<0, 1, 1>>, A_x, Filename(N_l, "1", A_x), <<>>,
                {Dep(N_rich)}, {VDep(N_l, "EQ", <<0, 1, 1>>)}, {}, "r2")
U_h1 == RpmUnit(N_h, <<0, 1, 1>>, A_x, Filename(N_h, "1", A_x), <<>>,
                {}, {VDep(N_h, "EQ", <<0, 1, 1>>)}, {N_file}, "r1")

\* the source repository s1 holds the SRPMs of g-1, p-1 and p-3, not of g-2
S_g1 == RpmUnit(N_g, <<0, 1, 1>>, A_src, Filename(N_g, "1", A_src), <<>>, {}, {}, {}, "s1")
S_p1 == RpmUnit(N_p, <<0, 1, 1>>, A_src, Filename(N_p, "1", A_src), <<>>, {}, {}, {}, "s1")
S_p3 == RpmUnit(N_p, <<0, 3, 1>>, A_src, Filename(N_p, "3", A_src), <<>>, {}, {}, {}, "s1")

\* the debug repositories d1, d2 of r1, r2 hold the debuginfo packages of g
DashDebuginfo   == <<"-", "d", "e", "b", "u", "g", "i", "n", "f", "o">>
DashDebugsource == <<"-", "d", "e", "b", "u", "g", "s", "o", "u", "r", "c", "e">>

N_gd == N_g \o DashDebuginfo

U_gd1 == RpmUnit(N_gd, <<0, 1, 1>>, A_x, Filename(N_gd, "1", A_x), Filename(N_g, "1", A_src),
                 {}, {VDep(N_gd, "EQ", <<0, 1, 1>>)}, {}, "d1")
U_gd2 == RpmUnit(N_gd, <<0, 2, 1>>, A_x, Filename(N_gd, "2", A_x), Filename(N_g, "2", A_src),
                 {}, {VDep(N_gd, "EQ", <<0, 2, 1>>)}, {}, "d2")

\* the repository r3 holds two pairs of RPMs that require each other: e and k
\* by name, a and b each in a version newer than the one r3 holds
N_a == <<"a">>
N_b == <<"b">>
N_e == <<"e">>
N_k == <<"k">>

U_a1 == RpmUnit(N_a, <<0, 1, 1>>, A_x, Filename(N_a, "1", A_x), <<>>,
                {VDep(N_b, "GE", <<0, 2, 0>>)}, {VDep(N_a, "EQ", <<0, 1, 1>>)}, {}, "r3")
U_b1 == RpmUnit(N_b, <<0, 1, 1>>, A_x, Filename(N_b, "1", A_x), <<>>,
                {VDep(N_a, "GE", <<0, 2, 0>>)}, {VDep(N_b, "EQ", <<0, 1, 1>>)}, {}, "r3")
U_e1 == RpmUnit(N_e, <<0, 1, 1>>, A_x, Filename(N_e, "1", A_x), <<>>,
                {Dep(N_k)}, {VDep(N_e, "EQ", <<0, 1, 1>>)}, {}, "r3")
U_k1 == RpmUnit(N_k, <<0, 1, 1>>, A_x, Filename(N_k, "1", A_x), <<>>,
                {Dep(N_e)}, {VDep(N_k, "EQ", <<0, 1, 1>>)}, {}, "r3")

RpmStore == {U_g1, U_g2, U_p1, U_p3, U_l1, U_h1, S_g1, S_p1, S_p3, U_gd1, U_gd2,
             U_a1, U_b1, U_e1, U_k1}

BinaryRepos == {"r1", "r2"}
SourceRepos == {"s1"}

\* search_rpms(criteria, repos): the rpm units of the repositories that match
\* create_or_criteria([field], [(v,) for v in values])
search_rpms(field, values, in_repos) ==
    {u \in RpmStore :
        /\ u.repo \in in_repos
        /\ CASE field = "name"          -> u.name \in values
             [] field = "filename"      -> u.filename \in values
             [] field = "provides.name" -> \E prov \in u.provides : prov.name \in values}


\* ModulemdUnit; stream <<>> in a dependency is None
ModulemdUnit(n, stream, version, context, deps, artifacts_filenames, profiles, repo) ==
    [name |-> n, stream |-> stream, version |-> version, context |-> context,
     dependencies |-> deps, artifacts_filenames |-> artifacts_filenames,
     profiles |-> profiles, repo |-> repo]

\* ModulemdDependency(name, stream)
ModDep(n, stream) == [name |-> n, stream |-> stream]

N_m == <<"m">>
N_n == <<"n">>
St_1 == <<"1">>
St_2 == <<"2">>

\* m:1 exists as version 1 in r1 (its artifact is the modular build p-3) and as
\* version 2, in two contexts, in r2; m and n depend on each other
M_m1 == ModulemdUnit(N_m, St_1, 1, <<"a">>, <<ModDep(N_n, None)>>,
                     {Filename(N_p, "3", A_x), Filename(N_p, "3", A_src)},
                     [common |-> {N_p}], "r1")
M_m2 == ModulemdUnit(N_m, St_1, 2, <<"a">>, <<ModDep(N_n, St_1), ModDep(N_n, None)>>,
                     {}, <<>>, "r2")
M_m2b == ModulemdUnit(N_m, St_1, 2, <<"b">>, <<>>, {}, <<>>, "r2")
M_n1 == ModulemdUnit(N_n, St_1, 1, <<"a">>, <<ModDep(N_m, St_1)>>, {}, <<>>, "r1")
M_n2 == ModulemdUnit(N_n, St_2, 5, <<"b">>, <<>>, {}, <<>>, "r2")


\* q:1 exists in r4 alone: its artifacts are the builds p-3 (binary and source)
\* and h-1; its profile common lists p, its profile minimal lists no package
M_q1 == ModulemdUnit(N_q, St_1, 1, <<"a">>, <<>>,
                     {Filename(N_p, "3", A_x), Filename(N_p, "3", A_src),
                      Filename(N_h, "1", A_x)},
                     [common |-> {N_p}, minimal |-> {}], "r4")

ModuleStore == {M_m1, M_m2, M_m2b, M_n1, M_n2, M_q1}

\* ModulemdDefaultsUnit(name, stream, repo_id)
ModulemdDefaultsUnit(n, stream, repo) == [name |-> n, stream |-> stream, repo |-> repo]

D_m == ModulemdDefaultsUnit(N_m, St_1, "r1")
D_n == ModulemdDefaultsUnit(N_n, St_2, "r2")

DefaultsStore == {D_m, D_n}

-----------------------------------------------------------------------------
(* Latest-version selection *)

\* _keep_n_latest_rpms(rpms) with n = 1, on the list sorted by vercmp_sort:
\* per arch the last unit of the sorted list survives.  The sort is stable and
\* the list comes from a set, so among units of equal EVR any may be the last:
\* the operator gives every possible survivor set.
_keep_n_latest_rpms(rpms) ==
    LET last == {u \in rpms : \A v \in rpms :
                    v.arch = u.arch => label_compare(v.evr, u.evr) <= 0}
    IN  {S \in SUBSET last :
            \A u \in rpms : Cardinality({w \in S : w.arch = u.arch}) = 1}

\* get_n_latest_from_content with the modular check left out
get_n_latest_from_content_no_modular_filter(content, blacklist, modular_rpms) ==
    LET kept == {item \in content : ~_is_blacklisted(item, blacklist)}
    IN  {S \in SUBSET kept :
            \A u \in kept :
                {w \in S : w.name = u.name}
                    \in _keep_n_latest_rpms({w \in kept : w.name = u.name})}

\* get_n_latest_from_content(content, blacklist, modular_rpms): every possible result
get_n_latest_from_content(content, blacklist, modular_rpms) ==
    LET kept == {item \in content :
                    /\ ~(modular_rpms # {} /\ item.filename \in modular_rpms)
                    /\ ~_is_blacklisted(item, blacklist)}
    IN  {S \in SUBSET kept :
            \A u \in kept :
                {w \in S : w.name = u.name}
                    \in _keep_n_latest_rpms({w \in kept : w.name = u.name})}

-----------------------------------------------------------------------------
(* Depsolver (rpm_depsolver.py) *)

\* DepsolverItem(whitelist, blacklist, in_pulp_repos)
DepsolverItem(whitelist, blacklist, in_pulp_repos) ==
    [whitelist |-> whitelist, blacklist |-> blacklist, in_pulp_repos |-> in_pulp_repos]

\* run(): pulp_repos
pulp_repos == UNION {repos[i].in_pulp_repos : i \in DOMAIN repos}

\* run(): merged_blacklist
merged_blacklist == UNION {repos[i].blacklist : i \in DOMAIN repos}

\* _get_pkgs_from_all_modules(repos)
_get_pkgs_from_all_modules(in_repos) ==
    UNION {m.artifacts_filenames : m \in {x \in ModuleStore : x.repo \in in_repos}}

\* get_base_packages(repos, pkgs_list, blacklist): every possible result
get_base_packages(in_repos, pkgs_list, blacklist) ==
    get_n_latest_from_content(search_rpms("name", pkgs_list, in_repos),
                              blacklist, modular_rpm_filenames)

\* get_modulemd_packages(repos, pkgs_list)
get_modulemd_packages(in_repos, pkgs_list) == search_rpms("filename", pkgs_list, in_repos)

\* what_provides(list_of_requires, repos, blacklist): every possible result
what_provides(list_of_requires, in_repos, blacklist) ==
    get_n_latest_from_content(
        search_rpms("provides.name", {item.name : item \in list_of_requires}, in_repos),
        blacklist, modular_rpm_filenames)

\* get_source_pkgs asking for the binary file names instead of rpm.sourcerpm
SourceFilenames_by_filename(binary_rpms) ==
    {rpm.filename : rpm \in {r \in binary_rpms : r.sourcerpm # <<>>}}

\* the file names get_source_pkgs asks for
SourceFilenames(binary_rpms) ==
    {rpm.sourcerpm : rpm \in {r \in binary_rpms : r.sourcerpm # <<>>}}

\* get_source_pkgs(binary_rpms, blacklist)
get_source_pkgs(binary_rpms, blacklist) ==
    {rpm \in search_rpms("filename", SourceFilenames(binary_rpms), srpm_repos) :
        ~_is_blacklisted(rpm, blacklist)}

\* extract_and_resolve(content): the requirements collected from content
ExtractedRequires(content) ==
    LET reqs      == UNION {rpm.requires : rpm \in content}
        file_reqs == {item \in reqs : StartsWith(item.name, <<"/">>)}
        has_files == {rpm \in content : rpm.files # {}}
        bool_reqs == {item \in reqs : ~StartsWith(item.name, <<"/">>)
                                      /\ StartsWith(item.name, <<"(">>)}
        plain     == (reqs \ file_reqs) \ bool_reqs
    IN  plain
        \cup UNION {parse_bool_deps(item.name) : item \in bool_reqs}
        \cup {Dep(rpm.name) : rpm \in {r \in has_files :
                                 \E item \in file_reqs : item.name \in r.files}}

\* extract_and_resolve(content): the new _provides
ExtractedProvides(content) == provides \cup UNION {rpm.provides : rpm \in content}

\* extract_and_resolve(content): the new _unsolved
ExtractedUnsolved(content) ==
    {req \in unsolved \cup ExtractedRequires(content) :
        ~\E prov \in ExtractedProvides(content) :
            prov.name = req.name /\ is_requirement_resolved(req, prov)}

BATCH_SIZE_RESOLVER == 2

\* _batch_size()
_batch_size(n) == IF n < BATCH_SIZE_RESOLVER THEN n ELSE BATCH_SIZE_RESOLVER

\* a search issued in the current task phase
Issue(kind, really) == IF really THEN issued \cup {<<kind, tpc>>} ELSE issued

\* a failing search whose exception depsolve_task would catch and ignore
TaskAfterFailure_swallowed == tpc

\* a failing search ends the task the depsolver runs in
TaskAfterFailure == IF tpc = "standalone" THEN tpc ELSE "failed"

\* run(), lines 216-249: modular file names, then the base searches are submitted
Start ==
    /\ dpc = "init"
    /\ UNCHANGED <<mvars, tvars>>
    /\ modular_rpm_filenames' =
           IF modular_rpm_filenames = {}
           THEN _get_pkgs_from_all_modules(pulp_repos) ELSE modular_rpm_filenames
    /\ content_fts' = (DOMAIN repos)
                         \cup (IF modulemd_dependencies # {} THEN {0} ELSE {})
    /\ issued' = issued
                    \cup (IF modular_rpm_filenames = {} /\ pulp_repos # {}
                          THEN {<<"modulemd", tpc>>} ELSE {})
                    \cup (IF (\E i \in DOMAIN repos : repos[i].whitelist # {}
                                                     /\ repos[i].in_pulp_repos # {})
                             \/ (modulemd_dependencies # {} /\ pulp_repos # {})
                          THEN {<<"rpm", tpc>>} ELSE {})
    /\ dpc' = "base"
    /\ UNCHANGED <<exported, repos, srpm_repos, modulemd_dependencies, base_pkgs_only,
                   source_rpm_fts, output_set, srpm_output_set, provides, requires,
                   unsolved, to_resolve, missing_log, base_log, tpc>>

\* run(), lines 252-258: one content future completes (as_completed: any order)
BaseDone ==
    /\ dpc = "base"
    /\ UNCHANGED <<mvars, tvars>>
    /\ \E ft \in content_fts :
         \E content \in (IF ft = 0
                         THEN {get_modulemd_packages(pulp_repos, modulemd_dependencies)}
                         ELSE get_base_packages(repos[ft].in_pulp_repos,
                                                repos[ft].whitelist,
                                                repos[ft].blacklist)) :
            /\ output_set' = output_set \cup content
            /\ source_rpm_fts' =
                   source_rpm_fts \cup {get_source_pkgs(content, merged_blacklist)}
            /\ issued' = Issue("srpm", SourceFilenames(content) # {} /\ srpm_repos # {})
            /\ content_fts' = content_fts \ {ft}
    /\ UNCHANGED <<exported, dpc, repos, srpm_repos, modulemd_dependencies,
                   modular_rpm_filenames, base_pkgs_only, srpm_output_set, provides,
                   requires, unsolved, to_resolve, missing_log, base_log, tpc>>

\* _log_missing_base_pkgs(): the (item, name) pairs warned about
_log_missing_base_pkgs ==
    UNION {{<<i, pkg_name>> : pkg_name \in
                repos[i].whitelist \ {item.name : item \in output_set}} :
           i \in DOMAIN repos}

\* run(), lines 260-263: the base packages are in; the closure starts, or is skipped
\* run(), line 262, with the loop entered whatever _base_pkgs_only is
AfterBase_loop == "loop"

\* run(), line 262: `while True and not self._base_pkgs_only`
AfterBase == IF base_pkgs_only THEN "collect" ELSE "loop"

LogBase ==
    /\ dpc = "base"
    /\ UNCHANGED <<mvars, tvars>>
    /\ content_fts = {}
    /\ base_log' = _log_missing_base_pkgs
    /\ to_resolve' = output_set
    /\ dpc' = AfterBase
    /\ UNCHANGED <<exported, repos, srpm_repos, modulemd_dependencies, modular_rpm_filenames,
                   base_pkgs_only, content_fts, source_rpm_fts, output_set,
                   srpm_output_set, provides, requires, unsolved, missing_log,
                   issued, tpc>>

\* run(), lines 264-268: the sweep that finds nothing left to resolve
SweepLast ==
    /\ dpc = "loop"
    /\ UNCHANGED <<mvars, tvars>>
    /\ ExtractedUnsolved(to_resolve) = {}
    /\ provides' = ExtractedProvides(to_resolve)
    /\ requires' = requires \cup ExtractedRequires(to_resolve)
    /\ unsolved' = {}
    /\ dpc' = "collect"
    /\ UNCHANGED <<exported, repos, srpm_repos, modulemd_dependencies, modular_rpm_filenames,
                   base_pkgs_only, content_fts, source_rpm_fts, output_set,
                   srpm_output_set, to_resolve, missing_log, base_log, issued, tpc>>

\* run(), lines 264-283: one sweep: extract, pop a batch, fetch what provides it
Sweep ==
    /\ dpc = "loop"
    /\ UNCHANGED <<mvars, tvars>>
    /\ ExtractedUnsolved(to_resolve) # {}
    /\ LET left == ExtractedUnsolved(to_resolve)
       IN  \E batch \in SUBSET left :
             /\ Cardinality(batch) = _batch_size(Cardinality(left))
             /\ \E resolved \in what_provides(batch, pulp_repos, merged_blacklist) :
                  /\ unsolved' = left \ batch
                  /\ to_resolve' = resolved
                  /\ output_set' = output_set \cup resolved
                  /\ source_rpm_fts' =
                         source_rpm_fts \cup {get_source_pkgs(resolved, merged_blacklist)}
                  /\ issued' = (IF pulp_repos # {} THEN issued \cup {<<"rpm", tpc>>}
                                ELSE issued)
                               \cup (IF SourceFilenames(resolved) # {} /\ srpm_repos # {}
                                     THEN {<<"srpm", tpc>>} ELSE {})
    /\ provides' = ExtractedProvides(to_resolve)
    /\ requires' = requires \cup ExtractedRequires(to_resolve)
    /\ UNCHANGED <<exported, dpc, repos, srpm_repos, modulemd_dependencies,
                   modular_rpm_filenames, base_pkgs_only, content_fts,
                   srpm_output_set, missing_log, base_log, tpc>>

\* _log_warnings: _is_blacklisted_by_rule(item, rule)
_is_blacklisted_by_rule(item, rule) ==
    IF rule.globbing THEN StartsWith(item, rule.name) ELSE item = rule.name

\* the names of the requirements still unsolved when the loop is left
deps_not_found_unsolved == {req.name : req \in unsolved}

\* run(), lines 292-294: deps_not_found
deps_not_found == {req.name : req \in requires} \ {prov.name : prov \in provides}

\* _log_warnings(deps_not_found, ...): one warning per name, of one of two kinds
_log_warnings(names) ==
    {[name |-> item,
      blacklisted |-> \E rule \in merged_blacklist : _is_blacklisted_by_rule(item, rule)] :
     item \in names}

\* run(), lines 285-296: the SRPM results are gathered, missing dependencies logged
Collect ==
    /\ dpc = "collect"
    /\ UNCHANGED <<mvars, tvars>>
    /\ srpm_output_set' = srpm_output_set \cup UNION source_rpm_fts
    /\ missing_log' = IF base_pkgs_only THEN missing_log
                      ELSE _log_warnings(deps_not_found)
    /\ dpc' = "done"
    /\ UNCHANGED <<exported, repos, srpm_repos, modulemd_dependencies, modular_rpm_filenames,
                   base_pkgs_only, content_fts, source_rpm_fts, output_set, provides,
                   requires, unsolved, to_resolve, base_log, issued, tpc>>

\* a search of the content store fails: the exception leaves run()
SearchFails ==
    /\ dpc \in {"init", "base", "loop", "collect"}
    /\ UNCHANGED <<mvars, tvars>>
    /\ CASE dpc = "init" -> modular_rpm_filenames = {} /\ pulp_repos # {}
         [] dpc = "base" ->
                \E ft \in content_fts :
                    IF ft = 0 THEN pulp_repos # {}
                    ELSE repos[ft].whitelist # {} /\ repos[ft].in_pulp_repos # {}
         [] dpc = "loop" -> ExtractedUnsolved(to_resolve) # {} /\ pulp_repos # {}
         [] dpc = "collect" -> <<"srpm", tpc>> \in issued
    /\ dpc' = "failed"
    /\ tpc' = TaskAfterFailure
    /\ UNCHANGED <<exported, repos, srpm_repos, modulemd_dependencies, modular_rpm_filenames,
                   base_pkgs_only, content_fts, source_rpm_fts, output_set,
                   srpm_output_set, provides, requires, unsolved, to_resolve,
                   missing_log, base_log, issued>>

DepsolverNext == Start \/ BaseDone \/ LogBase \/ SweepLast \/ Sweep \/ Collect \/ SearchFails

-----------------------------------------------------------------------------
(* ModularDepsolver (modulemd_depsolver.py) *)

FmtNone == <<"N", "o", "n", "e">>

\* f"{module.name}:{module.stream}"
NameStream(n, stream) == n \o <<":">> \o (IF stream = None THEN FmtNone ELSE stream)

\* `sub in s` for strings
PyIn(sub, s) ==
    \E i \in 1..(Len(s) - Len(sub) + 1) : SubSeq(s, i, i + Len(sub) - 1) = sub

\* the elements of a list
Range(seq) == {seq[i] : i \in DOMAIN seq}

\* every order in which a set can be iterated
Orderings(S) ==
    {seq \in [1..Cardinality(S) -> S] :
        \A i, j \in 1..Cardinality(S) : i # j => seq[i] # seq[j]}

\* a module of a config's modules.whitelist
Module(n, stream, profiles) == [name |-> n, stream |-> stream, profiles |-> profiles]

\* ModularDepsolverItem(modulelist, repo, in_pulp_repos)
ModularDepsolverItem(modulelist, repo, in_pulp_repos) ==
    [modulelist |-> modulelist, repo |-> repo, in_pulp_repos |-> in_pulp_repos]

\* ModularDepsolver.__init__: _input_repos
_input_repos == UNION {modular_items[i].in_pulp_repos : i \in DOMAIN modular_items}

\* chain.from_iterable(item.modulelist for item in self._modular_items)
RECURSIVE ChainModulelists(_)
ChainModulelists(items) ==
    IF items = <<>> THEN <<>>
    ELSE Head(items).modulelist \o ChainModulelists(Tail(items))

\* ModularDepsolver.__init__: _profiles.get(key) or []; a later module of the
\* same key overwrites an earlier one
_profiles(key) ==
    LET all  == ChainModulelists(modular_items)
        idxs == {i \in DOMAIN all : NameStream(all[i].name, all[i].stream) = key}
    IN  IF idxs = {} THEN {}
        ELSE all[CHOOSE i \in idxs : \A j \in idxs : j <= i].profiles

\* get_criteria_for_modules(modules): (name, stream) or (name, Matcher.exists())
get_criteria_for_modules(mods) ==
    {[name |-> m.name, stream |-> m.stream, exists |-> (m.stream = None)] : m \in mods}

\* the units a criterion on name and stream matches
MatchesCriteria(u, criteria) ==
    \E c \in criteria : u.name = c.name /\ (c.exists \/ u.stream = c.stream)

\* search_modulemds(or_criteria, repos)
search_modulemds(or_criteria, in_repos) ==
    {u \in ModuleStore : u.repo \in in_repos /\ MatchesCriteria(u, or_criteria)}

\* search_modulemd_defaults(or_criteria, repos)
search_modulemd_defaults(or_criteria, in_repos) ==
    {u \in DefaultsStore : u.repo \in in_repos /\ MatchesCriteria(u, or_criteria)}

\* keep_n_latest_modules(modules) with n = 1
keep_n_latest_modules(module_list) ==
    {m \in module_list : \A o \in module_list : o.version <= m.version}

\* get_modulemd_output_set(modules); the key is name + stream
get_modulemd_output_set(mods) ==
    UNION {keep_n_latest_modules({o \in mods : o.name \o o.stream = m.name \o m.stream}) :
           m \in mods}

\* _update_searched_modules(module) applied to searched
_update_searched_modules(searched, module) ==
    IF module.stream = None
    THEN [searched EXCEPT !.without_stream = @ \cup {module.name}]
    ELSE [searched EXCEPT !.with_stream = @ \cup {NameStream(module.name, module.stream)}]

\* _already_searched answering that nothing was searched for yet
_already_searched_never(searched, module) == FALSE

\* _already_searched(module) against searched
_already_searched(searched, module) ==
    \/ module.name \in searched.without_stream
    \/ NameStream(module.name, module.stream) \in searched.with_stream

\* run(), lines 75-76: every module of the list is marked as searched
RECURSIVE MarkSearched(_, _)
MarkSearched(searched, mods) ==
    IF mods = <<>> THEN searched
    ELSE MarkSearched(_update_searched_modules(searched, Head(mods)), Tail(mods))

\* _depsolve_modules, lines 105-114: the dependencies not searched for yet
RECURSIVE ScanDependencies(_, _)
ScanDependencies(acc, deps) ==
    IF deps = <<>> THEN acc
    ELSE IF _already_searched(acc.searched, Head(deps))
         THEN ScanDependencies(acc, Tail(deps))
         ELSE ScanDependencies(
                  [searched |-> _update_searched_modules(acc.searched, Head(deps)),
                   modules_to_search |-> Append(acc.modules_to_search, Head(deps))],
                  Tail(deps))

\* the dependencies of a list of modules, in the order the loops visit them
RECURSIVE ChainDependencies(_)
ChainDependencies(mods) ==
    IF mods = <<>> THEN <<>>
    ELSE Head(mods).dependencies \o ChainDependencies(Tail(mods))

SrcRpm == <<".", "s", "r", "c", ".", "r", "p", "m">>

\* _update_rpm_dependencies(module): the file names it adds
_update_rpm_dependencies(module) ==
    IF module.artifacts_filenames = {} THEN {}
    ELSE LET key == NameStream(module.name, module.stream)
             pkg_names ==
                 IF DOMAIN module.profiles = {} THEN {}
                 ELSE UNION {IF profile \in DOMAIN module.profiles
                             THEN module.profiles[profile] ELSE {} :
                             profile \in _profiles(key)}
         IN  {pkg \in module.artifacts_filenames :
                 /\ ~(pkg_names # {} /\ split_filename(pkg).name \notin pkg_names)
                 /\ ~PyIn(SrcRpm, pkg)}

\* executor.submit(search_modulemds, criteria, repos): whether a query goes out
\* to the content store, and the units it returns
Submit(or_criteria, in_repos) ==
    [submitted |-> or_criteria # {} /\ in_repos # {},
     units |-> search_modulemds(or_criteria, in_repos)]

NoPending == [submitted |-> FALSE, units |-> {}]

\* run(), lines 73-81: the next item: its modules are marked and searched for
RunItem ==
    /\ mpc = "run"
    /\ m_idx <= Len(modular_items)
    /\ LET item == modular_items[m_idx]
           modulemds_criteria == get_criteria_for_modules(Range(item.modulelist))
       IN  /\ searched_modules' = MarkSearched(searched_modules, item.modulelist)
           /\ pending' = Submit(modulemds_criteria, item.in_pulp_repos)
           /\ issued' = Issue("modulemd",
                              modulemds_criteria # {} /\ item.in_pulp_repos # {})
    /\ mpc' = "depsolve"
    /\ UNCHANGED <<modular_items, m_idx, modules, default_modulemds,
                   rpm_dependencies, tpc>>
    /\ UNCHANGED <<dvars, tvars>>

\* _depsolve_modules(modules): one call, up to the recursive call or the return
DepsolveModules ==
    /\ mpc = "depsolve"
    /\ \E filtered_modules \in Orderings(get_modulemd_output_set(pending.units)) :
         LET defaults == search_modulemd_defaults(
                             get_criteria_for_modules(Range(filtered_modules)),
                             _input_repos)
             scan == ScanDependencies(
                         [searched |-> searched_modules, modules_to_search |-> <<>>],
                         ChainDependencies(filtered_modules))
             modulemds_criteria ==
                 get_criteria_for_modules(Range(scan.modules_to_search))
         IN  /\ modules' = modules \o filtered_modules
             /\ \E found \in Orderings(defaults) :
                    default_modulemds' = default_modulemds \o found
             /\ rpm_dependencies' =
                    rpm_dependencies
                        \cup UNION {_update_rpm_dependencies(m) : m \in Range(filtered_modules)}
             /\ searched_modules' = scan.searched
             /\ IF scan.modules_to_search # <<>>
                THEN /\ pending' = Submit(modulemds_criteria, _input_repos)
                     /\ UNCHANGED <<mpc, m_idx>>
                ELSE /\ pending' = NoPending
                     /\ mpc' = "run"
                     /\ m_idx' = m_idx + 1
             /\ issued' = issued
                    \cup (IF filtered_modules # <<>> /\ _input_repos # {}
                          THEN {<<"modulemd_defaults", tpc>>} ELSE {})
                    \cup (IF scan.modules_to_search # <<>> /\ _input_repos # {}
                          THEN {<<"modulemd", tpc>>} ELSE {})
    /\ UNCHANGED <<modular_items, tpc>>
    /\ UNCHANGED <<dvars, tvars>>

\* run(): the loop over the items is over
RunReturns ==
    /\ mpc = "run"
    /\ m_idx > Len(modular_items)
    /\ mpc' = "done"
    /\ UNCHANGED <<modular_items, m_idx, searched_modules, modules, default_modulemds,
                   rpm_dependencies, pending, issued, tpc>>
    /\ UNCHANGED <<dvars, tvars>>

\* a search of the content store fails: the exception leaves run()
ModularSearchFails ==
    /\ mpc = "depsolve"
    /\ pending.submitted
    /\ mpc' = "failed"
    /\ tpc' = TaskAfterFailure
    /\ UNCHANGED <<modular_items, m_idx, searched_modules, modules, default_modulemds,
                   rpm_dependencies, pending, issued>>
    /\ UNCHANGED <<dvars, tvars>>

ModularNext == RunItem \/ DepsolveModules \/ RunReturns \/ ModularSearchFails

-----------------------------------------------------------------------------
(* depsolve_task (worker/tasks/depsolve.py) *)

\* the output repository of the job, its debug and source repositories
UbiRepos == {"u1", "u1d", "u1s"}

\* repo.population_sources
population_sources(repo) == ubi_population_sources[repo]

\* repo.get_debug_repository()
get_debug_repository(repo) ==
    CASE repo \in {"r1", "d1"} -> "d1"
      [] repo \in {"r2", "d2"} -> "d2"
      [] repo \in UbiRepos -> "u1d"

\* repo.get_source_repository()
get_source_repository(repo) == "u1s"

\* repo.get_binary_repository()
get_binary_repository(repo) ==
    CASE repo \in {"r1", "d1"} -> "r1"
      [] repo \in {"r2", "d2"} -> "r2"
      [] repo \in UbiRepos -> "u1"

\* depsolve_task, lines 67-76: repos_map
repos_map ==
    [r \in UNION {Range(population_sources(u)) : u \in UbiRepos} |->
        CHOOSE u \in UbiRepos : r \in Range(population_sources(u))]

\* _get_population_sources_per_cs: the content sets, in the order the dict holds them
RECURSIVE ContentSetOrder(_, _)
ContentSetOrder(sources, seen) ==
    IF sources = <<>> THEN seen
    ELSE ContentSetOrder(Tail(sources),
                         IF content_set[Head(sources)] \in Range(seen) THEN seen
                         ELSE Append(seen, content_set[Head(sources)]))

\* _get_population_sources_per_cs(client, repo): (rpm_sources, debug_sources)
_get_population_sources_per_cs(repo) ==
    LET order == ContentSetOrder(population_sources(repo), <<>>)
        of_cs(cs) == {r \in Range(population_sources(repo)) : content_set[r] = cs}
    IN  [order |-> order,
         rpm_sources   |-> [cs \in Range(order) |-> of_cs(cs)],
         debug_sources |-> [cs \in Range(order) |->
                               {get_debug_repository(r) : r \in of_cs(cs)}]]

Star == <<"*">>

\* parse_blacklist_config(ubi_config)
parse_blacklist_config(config) ==
    {PackageToExclude(
         IF EndsWith(pattern.name, Star) THEN PySlice(pattern.name, 0, -1)
                                         ELSE pattern.name,
         EndsWith(pattern.name, Star),
         IF pattern.arch \in {Star, None} THEN None ELSE pattern.arch) :
     pattern \in config.blacklist}

\* is_blacklisted(package, blacklist)
is_blacklisted(package, blacklist) ==
    \E item \in blacklist :
        /\ ~(item.arch # None /\ package.arch # item.arch)
        /\ IF item.globbing THEN StartsWith(package.name, item.name)
                            ELSE package.name = item.name

IsDebugName(n) ==
    \/ EndsWith(n, <<"d", "e", "b", "u", "g", "i", "n", "f", "o">>)
    \/ EndsWith(n, <<"d", "e", "b", "u", "g", "s", "o", "u", "r", "c", "e">>)
    \/ EndsWith(n, <<"d", "e", "b", "u", "g", "i", "n", "f", "o",
                    "-", "c", "o", "m", "m", "o", "n">>)

\* filter_whitelist(ubi_config, blacklist): (whitelist, debuginfo_whitelist)
filter_whitelist(config, blacklist) ==
    LET kept == {pkg \in config.whitelist :
                    pkg.arch # A_src /\ ~is_blacklisted(pkg, blacklist)}
    IN  [whitelist |-> {pkg.name : pkg \in {x \in kept : ~IsDebugName(x.name)}},
         debuginfo_whitelist |-> {pkg.name : pkg \in {x \in kept : IsDebugName(x.name)}}]

\* dict.get(key): a dict of flags is a set of (key, value) pairs; None is false
FlagGet(d, key) == \E pair \in d : pair[1] = key /\ pair[2]

\* validate_depsolver_flags with only the value of base_pkgs_only compared
validate_depsolver_flags_by_value(all_flags) ==
    [consistent |-> \A i \in DOMAIN all_flags :
                        FlagGet(all_flags[i], "base_pkgs_only")
                            = FlagGet(all_flags[1], "base_pkgs_only"),
     flags |-> IF all_flags = <<>> THEN {} ELSE all_flags[1]]

\* validate_depsolver_flags(depsolver_flags), on list(depsolver_flags.values())
validate_depsolver_flags(all_flags) ==
    [consistent |-> \A i \in DOMAIN all_flags : all_flags[i] = all_flags[1],
     flags |-> IF all_flags = <<>> THEN {} ELSE all_flags[1]]

\* depsolve_task, lines 80-113, for the one output repository of the job
Sources == _get_population_sources_per_cs("u1")

\* depsolver_flags.values()
depsolver_flags == [i \in DOMAIN Sources.order |-> ubi_config[Sources.order[i]].flags]

\* dep_map.values()
dep_map ==
    [i \in DOMAIN Sources.order |->
        LET cs == Sources.order[i]
            blacklist == parse_blacklist_config(ubi_config[cs])
        IN  DepsolverItem(filter_whitelist(ubi_config[cs], blacklist).whitelist,
                          blacklist, Sources.rpm_sources[cs])]

\* debug_dep_map.values(), as the loop builds it
debug_dep_map_built ==
    [i \in DOMAIN Sources.order |->
        LET cs == Sources.order[i]
            blacklist == parse_blacklist_config(ubi_config[cs])
        IN  DepsolverItem(filter_whitelist(ubi_config[cs], blacklist).debuginfo_whitelist,
                          blacklist, Sources.debug_sources[cs])]

\* mod_dep_map.values()
mod_dep_map ==
    [i \in DOMAIN Sources.order |->
        LET cs == Sources.order[i]
        IN  ModularDepsolverItem(ubi_config[cs].modules, "u1", Sources.rpm_sources[cs])]

IsRpmUnit(u) == "filename" \in DOMAIN u
IsModulemdUnit(u) == "context" \in DOMAIN u

\* remap_keys(mapping, dict_to_remap); a list of units is kept as the set of
\* its elements
remap_keys(mapping, dict_to_remap) ==
    [new_key \in {mapping[k] : k \in DOMAIN dict_to_remap} |->
        UNION {dict_to_remap[k] : k \in {x \in DOMAIN dict_to_remap : mapping[x] = new_key}}]

\* Depsolver.export(): per source repository, output_set | srpm_output_set
export ==
    LET units == output_set \cup srpm_output_set
    IN  [k \in {u.repo : u \in units} |-> {u \in units : u.repo = k}]

Digits == <<"0", "1", "2", "3", "4", "5", "6", "7", "8", "9">>

\* str(n) of a one-digit number
Str(n) == <<Digits[n + 1]>>

\* module.nsvca: name:stream:version:context:arch
nsvca(m) ==
    m.name \o <<":">> \o m.stream \o <<":">> \o Str(m.version)
        \o <<":">> \o m.context \o <<":">> \o A_x

\* ModularDepsolver.export()["modules_out"]: the first module of each nsvca, and
\* every modulemd defaults unit
modules_out ==
    LET first == {i \in DOMAIN modules :
                     \A j \in 1..(i - 1) : nsvca(modules[j]) # nsvca(modules[i])}
        units == {modules[i] : i \in first} \cup Range(default_modulemds)
    IN  [k \in {u.repo : u \in units} |-> {u \in units : u.repo = k}]

\* _merge_output_dictionary(out, update): the new out
_merge_output_dictionary(old, update) ==
    [key \in DOMAIN old \cup DOMAIN update |->
        IF key \in DOMAIN old /\ key \in DOMAIN update
        THEN LET filenames == {item.filename : item \in {x \in old[key] : IsRpmUnit(x)}}
             IN  old[key] \cup {item \in update[key] : item.filename \notin filenames}
        ELSE IF key \in DOMAIN update THEN update[key] ELSE old[key]]

\* _update_debug_whitelist: debuginfo_to_add of one key of the output
debuginfo_to_add(pkg_list) ==
    UNION {{pkg.name \o DashDebuginfo,
            split_filename(pkg.sourcerpm).name \o DashDebugsource} :
           pkg \in {x \in pkg_list : IsRpmUnit(x) /\ x.sourcerpm # <<>>}}

\* a debug whitelist update that adds nothing
_update_debug_whitelist_none(output_dict, dep_items) == dep_items

\* _update_debug_whitelist(client, output_dict, debug_dep_map): the new map
_update_debug_whitelist(output_dict, dep_items) ==
    [i \in DOMAIN dep_items |->
        LET cs == Sources.order[i]
            added == UNION {debuginfo_to_add(output_dict[ubi_repo_id]) :
                            ubi_repo_id \in {k \in DOMAIN output_dict :
                                \E _repo_in_id \in Range(population_sources(
                                                            get_debug_repository(k))) :
                                    content_set[get_binary_repository(_repo_in_id)] = cs}}
        IN  [dep_items[i] EXCEPT !.whitelist = @ \cup added]]

\* an item that names the output repository of the unit as its source
SavedItem_dest(unit) ==
    [src_repo_id |-> repos_map[unit.repo],
     unit_type |-> IF IsRpmUnit(unit) THEN "RpmUnit"
                   ELSE IF IsModulemdUnit(unit) THEN "ModulemdUnit"
                   ELSE "ModulemdDefaultsUnit",
     unit_attr |-> IF IsRpmUnit(unit) THEN "filename"
                   ELSE IF IsModulemdUnit(unit) THEN "nsvca" ELSE "name:stream",
     value |-> IF IsRpmUnit(unit) THEN unit.filename
               ELSE IF IsModulemdUnit(unit) THEN nsvca(unit)
               ELSE NameStream(unit.name, unit.stream)]

\* _save: the item written for a unit
SavedItem(unit) ==
    IF IsRpmUnit(unit)
    THEN [src_repo_id |-> unit.repo, unit_type |-> "RpmUnit",
          unit_attr |-> "filename", value |-> unit.filename]
    ELSE IF IsModulemdUnit(unit)
    THEN [src_repo_id |-> unit.repo, unit_type |-> "ModulemdUnit",
          unit_attr |-> "nsvca", value |-> nsvca(unit)]
    ELSE [src_repo_id |-> unit.repo, unit_type |-> "ModulemdDefaultsUnit",
          unit_attr |-> "name:stream", value |-> NameStream(unit.name, unit.stream)]

\* _save: data_for_redis, of a dictionary of lists of units
data_for_redis(data) ==
    [repo_id \in DOMAIN data |->
        [i \in DOMAIN data[repo_id] |-> SavedItem(data[repo_id][i])]]

\* ModularDepsolver.export(): the modules without a repeated nsvca, in order
RECURSIVE unique_modules(_, _)
unique_modules(ms, nsvca_set) ==
    IF ms = <<>> THEN <<>>
    ELSE IF nsvca(Head(ms)) \in nsvca_set
    THEN unique_modules(Tail(ms), nsvca_set)
    ELSE <<Head(ms)>> \o unique_modules(Tail(ms), nsvca_set \cup {nsvca(Head(ms))})

\* def_mod.unit_id: the identifier the content store gave the defaults unit, one
\* per unit of a repository, never of the form name:stream
unit_id(def_mod) ==
    <<"i", "d", "-">> \o def_mod.name \o <<"-">> \o def_mod.stream \o <<"-">> \o <<def_mod.repo>>

\* export() with the defaults compared by the name:stream it remembers
def_mod_key_name_stream(def_mod) == NameStream(def_mod.name, def_mod.stream)

\* export(), line 181: what the defaults loop looks up in def_mod_ids
def_mod_key(def_mod) == unit_id(def_mod)

\* export(), lines 178-186: the defaults units appended, in order; def_mod_ids
\* collects f"{name}:{stream}" of the units appended
RECURSIVE unique_defaults(_, _)
unique_defaults(ds, def_mod_ids) ==
    IF ds = <<>> THEN <<>>
    ELSE IF def_mod_key(Head(ds)) \in def_mod_ids
    THEN unique_defaults(Tail(ds), def_mod_ids)
    ELSE <<Head(ds)>>
            \o unique_defaults(Tail(ds),
                               def_mod_ids \cup {NameStream(Head(ds).name, Head(ds).stream)})

\* export()["modules_out"] as the lists export() builds: per source repository
\* the modules and then the defaults that the two loops append
export_modules_out ==
    LET units == unique_modules(modules, {}) \o unique_defaults(default_modulemds, {})
    IN  [k \in {units[i].repo : i \in DOMAIN units} |->
            SelectSeq(units, LAMBDA u : u.repo = k)]

\* the keys of a dictionary filled with setdefault(unit.repo, []) over a list
RECURSIVE InsertionOrder(_, _)
InsertionOrder(units, seen) ==
    IF units = <<>> THEN seen
    ELSE InsertionOrder(Tail(units),
                        IF Head(units).repo \in Range(seen) THEN seen
                        ELSE Append(seen, Head(units).repo))

\* remap_keys over a dictionary of lists, for one new key: the lists of the
\* old keys, in the order of the dictionary keys, one after the other
RECURSIVE remap_list(_, _, _, _)
remap_list(mapping, keys, units, new_key) ==
    IF keys = <<>> THEN <<>>
    ELSE LET of_key(u) == u.repo = Head(keys)
         IN  (IF mapping[Head(keys)] = new_key THEN SelectSeq(units, of_key) ELSE <<>>)
                 \o remap_list(mapping, Tail(keys), units, new_key)

\* remap_keys(repos_map, ModularDepsolver.export()["modules_out"])[key] as a
\* list: the modules and then the modulemd defaults of each source repository
modules_list(key) ==
    LET units == unique_modules(modules, {}) \o default_modulemds
    IN  remap_list(repos_map, InsertionOrder(units, <<>>), units, key)

\* export() telling units apart by file name alone
ExportKey_filename(item) == <<item.filename>>

\* export(), lines 315-319: what export() tells units apart by
ExportKey(item) == <<item.filename, item.repo>>

\* export(), lines 310-320: the loop over the units, taken in the order items
RECURSIVE export_loop(_, _, _)
export_loop(items, filename_repo_tuples, acc) ==
    IF items = <<>> THEN acc
    ELSE LET item == Head(items)
         IN  IF ExportKey(item) \in filename_repo_tuples
             THEN export_loop(Tail(items), filename_repo_tuples, acc)
             ELSE export_loop(
                      Tail(items),
                      filename_repo_tuples \cup {ExportKey(item)},
                      [k \in DOMAIN acc \cup {item.repo} |->
                          IF k = item.repo
                          THEN Append(IF k \in DOMAIN acc THEN acc[k] ELSE <<>>, item)
                          ELSE acc[k]])

\* Depsolver.export() is called after run(); the set union is iterated in
\* any order
Export ==
    /\ dpc = "done"
    /\ \E items \in Orderings(output_set \cup srpm_output_set) :
           exported' = export_loop(items, {}, EmptyDict)
    /\ dpc' = "exported"
    /\ UNCHANGED <<repos, srpm_repos, modulemd_dependencies, modular_rpm_filenames,
                   base_pkgs_only, content_fts, source_rpm_fts, output_set,
                   srpm_output_set, provides, requires, unsolved, to_resolve,
                   missing_log, base_log>>
    /\ UNCHANGED <<mvars, tvars, issued, tpc>>

\* the lists Depsolver.export() and remap_keys can build of a set of units:
\* the set is iterated in any order, the units of a source repository go to
\* one list, and the lists are joined in the order of their first unit
ExportOrders(S) ==
    {seq \in Orderings(S) :
        \A i, j, k \in DOMAIN seq :
            i < j /\ j < k /\ seq[i].repo = seq[k].repo => seq[j].repo = seq[i].repo}

\* the lists out[key] can be when _save is called: the modules, the RPMs the
\* binary pass appended, the RPMs the debug pass appended
out_lists(key) ==
    LET rpms   == {u \in out[key] : IsRpmUnit(u)}
        binary == IF key \in DOMAIN binary_out
                  THEN {u \in binary_out[key] : IsRpmUnit(u)} ELSE {}
    IN  {modules_list(key) \o a \o b :
            a \in ExportOrders(binary), b \in ExportOrders(rpms \ binary)}

\* Depsolver(repos, srpm_repos, modulemd_deps, modular_rpm_filenames, **flags)
NewDepsolver(items, srpms, modulemd_deps, modular_filenames) ==
    /\ dpc' = "init"
    /\ repos' = items
    /\ srpm_repos' = srpms
    /\ modulemd_dependencies' = modulemd_deps
    /\ modular_rpm_filenames' = modular_filenames
    /\ base_pkgs_only' = FlagGet(flags', "base_pkgs_only")
    /\ content_fts' = {}
    /\ source_rpm_fts' = {}
    /\ output_set' = {}
    /\ srpm_output_set' = {}
    /\ provides' = {}
    /\ requires' = {}
    /\ unsolved' = {}
    /\ to_resolve' = {}
    /\ missing_log' = {}
    /\ base_log' = {}
    /\ exported' = EmptyDict

\* depsolve_task, lines 51-122: the configs are collected and the flags
\* validated; the modulemd depsolver is created, or the task ends
CollectConfigs ==
    /\ tpc = "start"
    /\ LET validated == validate_depsolver_flags(depsolver_flags)
       IN  IF validated.consistent
           THEN /\ flags' = validated.flags
                /\ debug_dep_map' = debug_dep_map_built
                /\ modular_items' = mod_dep_map
                /\ mpc' = "run"
                /\ tpc' = "modulemd"
           ELSE /\ tpc' = "inconsistent"
                /\ UNCHANGED <<flags, debug_dep_map, modular_items, mpc>>
    /\ UNCHANGED <<m_idx, searched_modules, modules, default_modulemds,
                   rpm_dependencies, pending>>
    /\ UNCHANGED <<pvars, avars, jvars, cvars, ubi_population_sources, content_set, ubi_config, binary_out,
                   out, to_save, store, store_before, issued>>
    /\ UNCHANGED dvars

\* client.get_repository fails while the configs are collected
GetRepositoryFails ==
    /\ tpc = "start"
    /\ tpc' = "failed"
    /\ UNCHANGED <<dvars, mvars, tvars, issued>>

\* depsolve_task, lines 122-146: the modulemd depsolver is done; its export is
\* remapped and the depsolver of the binary repositories is created
ModulemdDone ==
    /\ tpc = "modulemd"
    /\ mpc = "done"
    /\ out' = remap_keys(repos_map, modules_out)
    /\ UNCHANGED flags
    /\ NewDepsolver(dep_map, Range(population_sources(get_source_repository("u1"))),
                    rpm_dependencies, {})
    /\ tpc' = "binary"
    /\ UNCHANGED <<pvars, avars, jvars, cvars, ubi_population_sources, content_set, ubi_config, binary_out,
                   debug_dep_map, to_save, store,
                   store_before, issued>>
    /\ UNCHANGED mvars

\* depsolve_task, lines 146-164: the binary depsolver is done; its export is
\* merged, the debug whitelists are extended and the debug depsolver is created
BinaryDone ==
    /\ tpc = "binary"
    /\ dpc = "done"
    /\ LET merged == _merge_output_dictionary(out, remap_keys(repos_map, export))
           updated == IF ~FlagGet(flags, "base_pkgs_only")
                      THEN _update_debug_whitelist(merged, debug_dep_map)
                      ELSE debug_dep_map
       IN  /\ out' = merged
           /\ binary_out' = merged
           /\ debug_dep_map' = updated
           /\ UNCHANGED flags
           /\ NewDepsolver(updated, srpm_repos, modulemd_dependencies,
                           modular_rpm_filenames)
    /\ tpc' = "debug"
    /\ UNCHANGED <<pvars, avars, jvars, cvars, ubi_population_sources, content_set, ubi_config,
                   to_save, store, store_before, issued>>
    /\ UNCHANGED mvars

\* depsolve_task, lines 164-175: the debug depsolver is done; its export is
\* merged, the missing keys are added and _save prepares the data
DebugDone ==
    /\ tpc = "debug"
    /\ dpc = "done"
    /\ LET merged == _merge_output_dictionary(out, remap_keys(repos_map, export))
           filled == [repo_id \in DOMAIN merged \cup Range(repos_map) |->
                         IF repo_id \in DOMAIN merged THEN merged[repo_id] ELSE {}]
       IN  /\ out' = filled
           /\ to_save' = DOMAIN filled
    /\ tpc' = "save"
    /\ UNCHANGED <<pvars, avars, jvars, cvars, ubi_population_sources, content_set, ubi_config, binary_out,
                   flags, debug_dep_map, store,
                   store_before, issued>>
    /\ UNCHANGED <<dvars, mvars>>

\* the entries of a list written one after the other, without brackets
json_dumps_bare(values) == values

\* json.dumps of a list: a text, here the sequence of its tokens, which is
\* not empty even when the list is
json_dumps(values) == <<[token |-> "["]>> \o values \o <<[token |-> "]"]>>

\* json.loads of such a text
json_loads(text) == SubSeq(text, 2, Len(text) - 1)

\* a set() that appended to the value of the key instead of replacing it
redis_append(redis, key, value) ==
    [k \in DOMAIN redis \cup {key} |->
        IF k # key THEN redis[k]
        ELSE IF key \in DOMAIN redis THEN redis[key] \o value ELSE value]

\* redis set(key, value): the whole value of the key is replaced at once
redis_set(redis, key, value) ==
    [k \in DOMAIN redis \cup {key} |-> IF k = key THEN value ELSE redis[k]]

\* redis get(key): None when the key is absent
redis_get(redis, key) == IF key \in DOMAIN redis THEN redis[key] ELSE None

\* _save, lines 236-239: one key is written
SaveKey ==
    /\ tpc = "save"
    /\ \E key \in to_save : \E units \in out_lists(key) :
         /\ store' = redis_set(store, key,
                                json_dumps(data_for_redis([d \in {key} |-> units])[key]))
         /\ last_set' = [k \in DOMAIN last_set \cup {key} |->
                            IF k = key THEN "task" ELSE last_set[k]]
         /\ to_save' = to_save \ {key}
    /\ UNCHANGED <<pvars, avars, other_out, other_to_save, cvars, ubi_population_sources,
                   content_set, ubi_config, binary_out, flags, debug_dep_map, out,
                   store_before, issued, tpc>>
    /\ UNCHANGED <<dvars, mvars>>

\* _save returns, and the task with it
SaveReturns ==
    /\ tpc = "save"
    /\ to_save = {}
    /\ tpc' = "done"
    /\ UNCHANGED <<dvars, mvars, tvars, issued>>

TaskNext ==
    \/ CollectConfigs \/ GetRepositoryFails \/ ModulemdDone \/ BinaryDone
    \/ DebugDone \/ SaveKey \/ SaveReturns
    \/ RunItem \/ DepsolveModules \/ RunReturns \/ ModularSearchFails
    \/ Start \/ BaseDone \/ LogBase \/ SweepLast \/ Sweep \/ Collect \/ SearchFails

-----------------------------------------------------------------------------
(* UbiConfigLoader and get_content_config (worker/ubi_config.py). None is  *)
(* <<>> and a config c that was found is <<c>>.                            *)

\* a UbiConfig: its version and its three (input, output) content set pairs
UbiConfig(id, version, rpm, debuginfo, srpm) ==
    [id |-> id, version |-> version, rpm |-> rpm, debuginfo |-> debuginfo, srpm |-> srpm]

\* UbiConfigLoader._content_sets(config)
_content_sets(config) == <<config.rpm, config.debuginfo, config.srpm>>

\* get_config, lines 48-50: _config_map.setdefault for each pair of config
CacheConfig(map, config) ==
    [key \in DOMAIN map \cup {<<p[1], p[2], config.version>> :
                                  p \in Range(_content_sets(config))} |->
        IF key \in DOMAIN map THEN map[key] ELSE config]

\* get_config, lines 47-58: the loop over all_config
RECURSIVE get_config_loop(_, _, _, _, _)
get_config_loop(configs, map, input_cs, output_cs, version) ==
    IF configs = <<>> THEN [out |-> None, map |-> map]
    ELSE LET config == Head(configs)
             cached == CacheConfig(map, config)
         IN  IF /\ config.version = version
                /\ <<input_cs, output_cs>> \in Range(_content_sets(config))
             THEN [out |-> <<config>>, map |-> cached]
             ELSE get_config_loop(Tail(configs), cached, input_cs, output_cs, version)

\* UbiConfigLoader.get_config(input_cs, output_cs, version): the config and
\* the new _config_map
get_config(map, input_cs, output_cs, version) ==
    IF <<input_cs, output_cs, version>> \in DOMAIN map
    THEN [out |-> <<map[<<input_cs, output_cs, version>>]>>, map |-> map]
    ELSE get_config_loop(all_config, map, input_cs, output_cs, version)

\* the second version get_content_config tries, without a fallback
MajorVersion_same(version) == version

\* version.split(".")[0]
MajorVersion(version) ==
    IF PyFind(version, ".") = -1 THEN version
    ELSE PySlice(version, 0, PyFind(version, "."))

\* get_content_config(ubi_config_loader, input_cs, output_cs, version): the
\* config, None when ContentConfigMissing is raised, and the new _config_map
get_content_config(map, input_cs, output_cs, version) ==
    LET first == get_config(map, input_cs, output_cs, version)
    IN  IF first.out # None THEN first
        ELSE get_config(first.map, input_cs, output_cs, MajorVersion(version))

\* no loader exists
ConfigLoaderIdle ==
    /\ all_config = <<>>
    /\ config_map = EmptyDict
    /\ config_query = <<>>
    /\ config_out = None

-----------------------------------------------------------------------------
(* The states in which a component does not exist *)

\* no ModularDepsolver exists
ModularIdle ==
    /\ mpc = "idle"
    /\ modular_items = <<>>
    /\ m_idx = 1
    /\ searched_modules = [without_stream |-> {}, with_stream |-> {}]
    /\ modules = <<>>
    /\ default_modulemds = <<>>
    /\ rpm_dependencies = {}
    /\ pending = NoPending

\* no Depsolver exists
DepsolverIdle ==
    /\ dpc = "idle"
    /\ repos = <<>>
    /\ srpm_repos = {}
    /\ modulemd_dependencies = {}
    /\ modular_rpm_filenames = {}
    /\ base_pkgs_only = FALSE
    /\ content_fts = {}
    /\ source_rpm_fts = {}
    /\ output_set = {}
    /\ srpm_output_set = {}
    /\ provides = {}
    /\ requires = {}
    /\ unsolved = {}
    /\ to_resolve = {}
    /\ missing_log = {}
    /\ base_log = {}
    /\ exported = EmptyDict

NoRequest == [method |-> "none"]

NoResponse == [status |-> 0]

\* the API has received no request
ApiIdle ==
    /\ content_configs = <<>>
    /\ request = NoRequest
    /\ task_queue = <<>>
    /\ response = NoResponse

\* no function is called on its own
NoCall ==
    /\ call_args = <<>>
    /\ call_result = <<>>

\* no second depsolve_task runs and nothing has written to the store
OtherIdle ==
    /\ other_out = EmptyDict
    /\ other_to_save = {}
    /\ last_set = EmptyDict

\* no depsolve_task runs
TaskIdle ==
    /\ tpc = "standalone"
    /\ issued = {}
    /\ ubi_population_sources = EmptyDict
    /\ content_set = EmptyDict
    /\ ubi_config = EmptyDict
    /\ flags = {}
    /\ debug_dep_map = <<>>
    /\ out = EmptyDict
    /\ binary_out = EmptyDict
    /\ to_save = {}
    /\ ConfigLoaderIdle
    /\ ApiIdle
    /\ NoCall
    /\ OtherIdle
    /\ store = EmptyDict
    /\ store_before = EmptyDict

-----------------------------------------------------------------------------
(* Depsolver.run() on its own, over any list of one or two DepsolverItems *)

MaxWhitelist == 2

PackageNames == {N_g, N_p, N_l, N_h}

Whitelists == {w \in SUBSET PackageNames : Cardinality(w) \in 1..MaxWhitelist}

Blacklists == {{},
               {PackageToExclude(N_g, FALSE, None)},
               {PackageToExclude(N_p, FALSE, A_x)},
               {PackageToExclude(N_l, TRUE, None), PackageToExclude(N_p, FALSE, A_src)}}

RepoLists == {{"r1"}, {"r2"}, {"r1", "r2"}}

Items == {DepsolverItem(w, b, r) : w \in Whitelists, b \in Blacklists, r \in RepoLists}

ModulemdDependencies == {{}, {Filename(N_p, "3", A_x)}}

\* Depsolver.__init__
DepsolverInit ==
    /\ dpc = "init"
    /\ content_fts = {}
    /\ source_rpm_fts = {}
    /\ output_set = {}
    /\ srpm_output_set = {}
    /\ provides = {}
    /\ requires = {}
    /\ unsolved = {}
    /\ to_resolve = {}
    /\ missing_log = {}
    /\ base_log = {}
    /\ exported = EmptyDict

InitRpm ==
    /\ DepsolverInit
    /\ repos \in {<<a>> : a \in Items}
                 \cup {<<a, b>> : a \in Items,
                                  b \in {x \in Items : Cardinality(x.whitelist) = 1}}
    /\ srpm_repos = SourceRepos
    /\ modulemd_dependencies \in ModulemdDependencies
    /\ modular_rpm_filenames = {}
    /\ base_pkgs_only \in BOOLEAN
    /\ ModularIdle
    /\ TaskIdle

SpecRpm == InitRpm /\ [][DepsolverNext]_vars


-----------------------------------------------------------------------------
(* Depsolver.run() on its own, always taking its next step, over one      *)
(* DepsolverItem whose repositories may include r3                         *)

ItemsFair == {DepsolverItem(w, b, r) :
                 w \in {{N_a}, {N_e}, {N_g}, {N_l, N_e}, {N_g, N_a}},
                 b \in {{}, {PackageToExclude(N_b, FALSE, None)}},
                 r \in {{"r3"}, {"r1", "r2", "r3"}}}

InitRpmFair ==
    /\ DepsolverInit
    /\ repos \in {<<a>> : a \in ItemsFair}
    /\ srpm_repos = SourceRepos
    /\ modulemd_dependencies = {}
    /\ modular_rpm_filenames = {}
    /\ base_pkgs_only \in BOOLEAN
    /\ ModularIdle
    /\ TaskIdle

\* the thread that runs run() is never stopped for good
SpecRpmFair == InitRpmFair /\ [][DepsolverNext]_vars /\ WF_vars(DepsolverNext)

-----------------------------------------------------------------------------
(* Depsolver.export() on its own, over any output_set and srpm_output_set  *)
(* drawn from a few units: p-1 as r1 holds it, the same unit as r2 would   *)
(* hold it, p-1 of r1 read with other requirements, h-1, and the SRPM of   *)
(* p-1 as s1 and as a second source repository would hold it               *)

ExportRpms == {U_p1, [U_p1 EXCEPT !.repo = "r2"],
               [U_p1 EXCEPT !.requires = {Dep(N_h)}], U_h1}

ExportSrpms == {S_p1, [S_p1 EXCEPT !.repo = "s2"], S_g1}

InitExport ==
    /\ dpc = "done"
    /\ repos = <<>>
    /\ srpm_repos = {}
    /\ modulemd_dependencies = {}
    /\ modular_rpm_filenames = {}
    /\ base_pkgs_only = FALSE
    /\ content_fts = {}
    /\ source_rpm_fts = {}
    /\ output_set \in SUBSET ExportRpms
    /\ srpm_output_set \in SUBSET ExportSrpms
    /\ provides = {}
    /\ requires = {}
    /\ unsolved = {}
    /\ to_resolve = {}
    /\ missing_log = {}
    /\ base_log = {}
    /\ exported = EmptyDict
    /\ ModularIdle
    /\ TaskIdle

SpecExport == InitExport /\ [][Export]_vars

-----------------------------------------------------------------------------
(* ModularDepsolver.run() on its own, over one or two ModularDepsolverItems *)

Modulelists == {<<>>,
                <<Module(N_m, St_1, {"common"})>>,
                <<Module(N_m, St_1, {})>>,
                <<Module(N_n, None, {})>>,
                <<Module(N_n, St_1, {})>>,
                <<Module(N_m, St_1, {}), Module(N_n, St_2, {})>>}

ModularItems == {ModularDepsolverItem(ml, "u1", r) : ml \in Modulelists, r \in RepoLists}

\* ModularDepsolver.__init__
ModularInit ==
    /\ mpc = "run"
    /\ m_idx = 1
    /\ searched_modules = [without_stream |-> {}, with_stream |-> {}]
    /\ modules = <<>>
    /\ default_modulemds = <<>>
    /\ rpm_dependencies = {}
    /\ pending = NoPending

InitMod ==
    /\ ModularInit
    /\ modular_items \in {<<a>> : a \in ModularItems}
                         \cup {<<a, b>> : a \in ModularItems, b \in ModularItems}
    /\ DepsolverIdle
    /\ TaskIdle

SpecMod == InitMod /\ [][ModularNext]_vars

-----------------------------------------------------------------------------
(* ModularDepsolver.run() over whitelists that name profiles of q:1: none,   *)
(* one that lists a package, one that lists none, one that q:1 does not have *)

ProfileNames == {"common", "minimal", "absent"}

ProfileItems ==
    {ModularDepsolverItem(<<Module(N_q, St_1, ps)>>, "u1", r) :
        ps \in SUBSET ProfileNames, r \in {{"r4"}, {"r1", "r4"}}}
    \cup {ModularDepsolverItem(<<Module(N_m, St_1, ps)>>, "u1", {"r1", "r4"}) :
             ps \in {{}, {"common"}, {"absent"}}}

InitProfiles ==
    /\ ModularInit
    /\ modular_items \in {<<a>> : a \in ProfileItems}
                         \cup {<<a, b>> : a \in ProfileItems, b \in ProfileItems}
    /\ DepsolverIdle
    /\ TaskIdle

SpecProfiles == InitProfiles /\ [][ModularNext]_vars

\* one ModularDepsolverItem only
InitModFair ==
    /\ InitMod
    /\ Len(modular_items) = 1

\* the thread that runs run() is never stopped for good
SpecModFair == InitModFair /\ [][ModularNext]_vars /\ WF_vars(ModularNext)

-----------------------------------------------------------------------------
(* depsolve_task over one output repository with two population sources *)

\* a package of packages.whitelist, a pattern of packages.blacklist
Package(n, arch) == [name |-> n, arch |-> arch]

ConfigWhitelists == {{Package(N_g, None)},
                     {Package(N_p, None), Package(N_h, None)},
                     {Package(N_l, None), Package(N_gd, None), Package(N_p, A_src)}}

ConfigBlacklists == {{}, {Package(N_l \o Star, Star)}}

ConfigModules == {<<>>, <<Module(N_m, St_1, {"common"})>>}

\* config.flags.as_dict()
FlagDicts == {{},
              {<<"base_pkgs_only", TRUE>>},
              {<<"base_pkgs_only", FALSE>>},
              {<<"base_pkgs_only", FALSE>>, <<"other_flag", TRUE>>}}

Configs == {[whitelist |-> w, blacklist |-> b, modules |-> m, flags |-> f] :
            w \in ConfigWhitelists, b \in ConfigBlacklists,
            m \in ConfigModules, f \in FlagDicts}

\* what the result store holds when the task starts
OldItem == [src_repo_id |-> "r1", unit_type |-> "RpmUnit", unit_attr |-> "filename",
            value |-> Filename(N_h, "1", A_x)]

Stores == {EmptyDict, [k \in UbiRepos |-> json_dumps(<<OldItem>>)]}

\* the population sources of the output repositories; a source repository
\* may have none
PopulationSources ==
    {[u \in UbiRepos |-> CASE u = "u1"  -> <<"r1", "r2">>
                           [] u = "u1d" -> <<"d1", "d2">>
                           [] u = "u1s" -> srpm_sources] :
     srpm_sources \in {<<"s1">>, <<>>}}

\* depsolve_task is called
TaskStart ==
    /\ tpc = "start"
    /\ issued = {}
    /\ ubi_population_sources \in PopulationSources
    /\ content_set \in {[r \in BinaryRepos |-> "cs1"],
                        [r \in BinaryRepos |-> IF r = "r1" THEN "cs1" ELSE "cs2"]}
    /\ ubi_config \in [{content_set[r] : r \in BinaryRepos} -> Configs]
    /\ flags = {}
    /\ debug_dep_map = <<>>
    /\ out = EmptyDict
    /\ binary_out = EmptyDict
    /\ to_save = {}
    /\ ConfigLoaderIdle
    /\ ApiIdle
    /\ NoCall
    /\ store \in Stores
    /\ store_before = store
    /\ DepsolverIdle
    /\ ModularIdle

InitTask == TaskStart /\ OtherIdle

SpecTask == InitTask /\ [][TaskNext]_vars

-----------------------------------------------------------------------------
(* The config lookups of depsolve_task on their own: any number of        *)
(* get_content_config calls on one loader, over up to two configs          *)

V_8   == <<"8">>
V_8_4 == <<"8", ".", "4">>
V_8_5 == <<"8", ".", "5">>
V_9   == <<"9">>

ConfigPool ==
    {UbiConfig(1, V_8_4, <<"cs1", "ucs">>, <<"cs1d", "ucsd">>, <<"cs1s", "ucss">>),
     UbiConfig(2, V_8,   <<"cs1", "ucs">>, <<"cs1d", "ucsd">>, <<"cs1s", "ucss">>),
     UbiConfig(3, V_8,   <<"cs2", "ucs">>, <<"cs2d", "ucsd">>, <<"cs2s", "ucss">>),
     UbiConfig(4, V_8_5, <<"cs2", "ucs">>, <<"cs2d", "ucsd">>, <<"cs2s", "ucss">>)}

MaxConfigs == 2

ConfigLists == UNION {Orderings(S) : S \in {T \in SUBSET ConfigPool :
                                              Cardinality(T) <= MaxConfigs}}

InitConfig ==
    /\ tpc = "start"
    /\ issued = {}
    /\ ubi_population_sources = EmptyDict
    /\ content_set = EmptyDict
    /\ ubi_config = EmptyDict
    /\ flags = {}
    /\ debug_dep_map = <<>>
    /\ out = EmptyDict
    /\ binary_out = EmptyDict
    /\ to_save = {}
    /\ store \in Stores
    /\ store_before = store
    /\ all_config \in ConfigLists
    /\ config_map = EmptyDict
    /\ config_query = <<>>
    /\ config_out = None
    /\ ApiIdle
    /\ NoCall
    /\ OtherIdle
    /\ DepsolverIdle
    /\ ModularIdle

\* depsolve_task, lines 86-92: one get_content_config call; ContentConfigMissing
\* leaves the task
GetContentConfig ==
    /\ tpc = "start"
    /\ \E input_cs \in {"cs1", "cs2", "cs1d"}, output_cs \in {"ucs", "ucsd"},
          version \in {V_8, V_8_4, V_8_5, V_9} :
         LET found == get_content_config(config_map, input_cs, output_cs, version)
         IN  /\ config_query' = <<input_cs, output_cs, version>>
             /\ config_map' = found.map
             /\ config_out' = found.out
             /\ tpc' = IF found.out = None THEN "failed" ELSE "start"
    /\ UNCHANGED <<pvars, avars, jvars, all_config, ubi_population_sources, content_set, ubi_config, flags,
                   debug_dep_map, out, binary_out, to_save, store, store_before>>
    /\ UNCHANGED <<dvars, mvars, issued>>

SpecConfig == InitConfig /\ [][GetContentConfig]_vars

-----------------------------------------------------------------------------
(* depsolve_task run twice on the same content store, configuration and   *)
(* repository ids: the second run starts when the first has returned      *)

ConfigsTwice ==
    {c \in Configs :
        /\ c.blacklist = {}
        /\ c.flags = {}
        /\ c.whitelist # {Package(N_g, None)}}

InitTwice ==
    /\ InitTask
    /\ store = EmptyDict
    /\ \A cs \in DOMAIN ubi_config : ubi_config[cs] \in ConfigsTwice

\* depsolve_task is called again with the arguments of the first call
Rerun ==
    /\ tpc = "done"
    /\ store_before = EmptyDict
    /\ store_before' = store
    /\ tpc' = "start"
    /\ issued' = {}
    /\ flags' = {}
    /\ debug_dep_map' = <<>>
    /\ out' = EmptyDict
    /\ binary_out' = EmptyDict
    /\ to_save' = {}
    /\ dpc' = "idle"
    /\ repos' = <<>>
    /\ srpm_repos' = {}
    /\ modulemd_dependencies' = {}
    /\ modular_rpm_filenames' = {}
    /\ base_pkgs_only' = FALSE
    /\ content_fts' = {}
    /\ source_rpm_fts' = {}
    /\ output_set' = {}
    /\ srpm_output_set' = {}
    /\ provides' = {}
    /\ requires' = {}
    /\ unsolved' = {}
    /\ to_resolve' = {}
    /\ missing_log' = {}
    /\ base_log' = {}
    /\ exported' = EmptyDict
    /\ mpc' = "idle"
    /\ modular_items' = <<>>
    /\ m_idx' = 1
    /\ searched_modules' = [without_stream |-> {}, with_stream |-> {}]
    /\ modules' = <<>>
    /\ default_modulemds' = <<>>
    /\ rpm_dependencies' = {}
    /\ pending' = NoPending
    /\ UNCHANGED <<pvars, avars, jvars, cvars, ubi_population_sources, content_set, ubi_config, store>>

NextTwice == TaskNext \/ Rerun

SpecTwice == InitTwice /\ [][NextTwice]_vars

-----------------------------------------------------------------------------
(* The API (app/api.py, app/utils.py): POST and GET of /api/v1/manifest.   *)
(* The result store is written by the _save of a depsolve_task, key by     *)
(* key, and its keys expire.                                               *)

\* a repository as Pulp returns it to the API
YumRepository(id, cs, arch, ubi_population) ==
    [id |-> id, content_set |-> cs, arch |-> arch, ubi_population |-> ubi_population]

\* the repositories of Pulp, in the order a search returns them
PulpRepositories ==
    <<YumRepository("ct_repo_1", "ct_cs_0", "arch1", TRUE),
      YumRepository("ct_repo_2", "ct_cs_1", "arch1", TRUE),
      YumRepository("ubi_repo_1", "ubi_cs_0", "arch1", TRUE),
      YumRepository("ubi_repo_2", "ubi_cs_1", "arch1", TRUE),
      YumRepository("ubi_repo_3", "ubi_cs_2", "arch2", TRUE),
      YumRepository("ubi_repo_4", "ubi_cs_0", "arch1", FALSE),
      YumRepository("ubi_repo_5", "ubi_cs_3", "arch1", TRUE)>>

\* the repository ids in the order of Python's string comparison
RepoIdOrder == [i \in DOMAIN PulpRepositories |-> PulpRepositories[i].id]

\* list(sorted(repo_group))
sorted(repo_group) == SelectSeq(RepoIdOrder, LAMBDA id : id \in repo_group)

\* a config as the loader of a content config source returns it to the API
LoadedConfig(version, output, config_flags) ==
    [version |-> version, output |-> output, flags |-> config_flags]

\* one entry of get_content_configs(): a source and what its loader loads
ContentConfig(source, configs) == [source |-> source, configs |-> configs]

\* get_configs: only the configs of major versions are used
get_configs(config) ==
    SelectSeq(config.configs, LAMBDA conf : ~Contains(conf.version, "."))

\* check_and_get_flag: the set of the values of base_pkgs_only
flag_values(configs) == {FlagGet(conf.flags, "base_pkgs_only") : conf \in Range(configs)}

\* get_repo_ids_from_cs
get_repo_ids_from_cs(ubi_binary_cs) ==
    SelectSeq(PulpRepositories,
              LAMBDA r : r.content_set = ubi_binary_cs /\ r.ubi_population)

\* f"{config.version}-{repo.arch}"
group_key(version, arch) == version \o <<"-", arch>>

\* repo_groups.setdefault(group_key, set()).add(repo.id); a dict is the
\* sequence of its entries in insertion order
add_to_group(repo_groups, key, id) ==
    IF \E i \in DOMAIN repo_groups : repo_groups[i].key = key
    THEN [i \in DOMAIN repo_groups |->
            IF repo_groups[i].key = key
            THEN [key |-> key, group |-> repo_groups[i].group \cup {id}]
            ELSE repo_groups[i]]
    ELSE Append(repo_groups, [key |-> key, group |-> {id}])

RECURSIVE group_repos(_, _, _)
\* get_repo_groups, the loop over the repositories of one config
group_repos(repo_groups, version, found) ==
    IF found = <<>> THEN repo_groups
    ELSE group_repos(add_to_group(repo_groups,
                                  group_key(version, Head(found).arch),
                                  Head(found).id),
                     version, Tail(found))

RECURSIVE get_repo_groups_loop(_, _)
get_repo_groups_loop(repo_groups, configs) ==
    IF configs = <<>> THEN repo_groups
    ELSE get_repo_groups_loop(
             group_repos(repo_groups, Head(configs).version,
                         get_repo_ids_from_cs(Head(configs).output)),
             Tail(configs))

get_repo_groups(configs) == get_repo_groups_loop(<<>>, configs)

\* get_items_from_groups, the inner loop: the first group that holds the id
matching_groups(repo_id, repo_groups) ==
    LET found == SelectSeq(repo_groups, LAMBDA g : repo_id \in g.group)
    IN  IF found = <<>> THEN <<>> ELSE <<Head(found)>>

RECURSIVE setdefault_all(_, _)
\* needed_repo_groups.setdefault(group_key, repo_group) for each of found
setdefault_all(needed, found) ==
    IF found = <<>> THEN needed
    ELSE setdefault_all(
             IF \E i \in DOMAIN needed : needed[i].key = Head(found).key
             THEN needed ELSE Append(needed, Head(found)),
             Tail(found))

RECURSIVE needed_repo_groups(_, _, _)
needed_repo_groups(needed, repo_ids, repo_groups) ==
    IF repo_ids = <<>> THEN needed
    ELSE needed_repo_groups(
             setdefault_all(needed, matching_groups(Head(repo_ids), repo_groups)),
             Tail(repo_ids), repo_groups)

\* get_items_from_groups
get_items_from_groups(repo_ids, repo_groups, config_url) ==
    LET needed == needed_repo_groups(<<>>, repo_ids, repo_groups)
    IN  [i \in DOMAIN needed |->
            [repo_group |-> sorted(needed[i].group), url |-> config_url]]

\* get_items_not_full_depsolving
get_items_not_full_depsolving(configs, repo_ids, config_url) ==
    LET pulp_repo_ids ==
            UNION {{r.id : r \in Range(get_repo_ids_from_cs(conf.output))} :
                   conf \in Range(configs)}
        present == SelectSeq(repo_ids, LAMBDA id : id \in pulp_repo_ids)
    IN  [i \in DOMAIN present |-> [repo_group |-> <<present[i]>>, url |-> config_url]]

RECURSIVE get_items_loop(_, _, _)
\* get_items_for_depsolving, the loop over the content config sources;
\* FlagInconsistencyError leaves it
get_items_loop(all_items, configs_left, repo_ids) ==
    IF configs_left = <<>> THEN [raised |-> FALSE, items |-> all_items]
    ELSE LET config == Head(configs_left)
             configs == get_configs(config)
         IN  IF configs = <<>>
             THEN get_items_loop(all_items, Tail(configs_left), repo_ids)
             ELSE IF Cardinality(flag_values(configs)) # 1
             THEN [raised |-> TRUE, items |-> <<>>]
             ELSE LET base_pkg_only == CHOOSE v \in flag_values(configs) : TRUE
                      items ==
                          IF base_pkg_only
                          THEN get_items_not_full_depsolving(configs, repo_ids,
                                                             config.source)
                          ELSE get_items_from_groups(repo_ids,
                                                     get_repo_groups(configs),
                                                     config.source)
                  IN  get_items_loop(all_items \o items, Tail(configs_left), repo_ids)

get_items_for_depsolving(repo_ids) == get_items_loop(<<>>, content_configs, repo_ids)

\* the queue the broker keeps is bounded here
MaxQueue == 2

\* the longest repo_ids list of a request
MaxRepoIds == 2

RequestedIds == {"ct_repo_1", "ubi_repo_1", "ubi_repo_2", "ubi_repo_3",
                 "ubi_repo_not_allowed"}

RepoIdLists == UNION {[1..n -> RequestedIds] : n \in 0..MaxRepoIds}

\* manifest_post: 400, 404, the exception of get_items_for_depsolving, or one
\* apply_async for each depsolve item
ManifestPost ==
    /\ Len(task_queue) < MaxQueue
    /\ \E repo_ids \in RepoIdLists :
         /\ request' = [method |-> "POST", repo_ids |-> repo_ids]
         /\ IF repo_ids = <<>>
            THEN /\ response' = [status |-> 400, tasks |-> <<>>]
                 /\ UNCHANGED task_queue
            ELSE LET depsolve_items == get_items_for_depsolving(repo_ids)
                 IN  IF depsolve_items.raised
                     THEN /\ response' = [status |-> 500, tasks |-> <<>>]
                          /\ UNCHANGED task_queue
                     ELSE IF depsolve_items.items = <<>>
                     THEN /\ response' = [status |-> 404, tasks |-> <<>>]
                          /\ UNCHANGED task_queue
                     ELSE /\ task_queue' = task_queue \o depsolve_items.items
                          /\ response' =
                                [status |-> 201,
                                 tasks |-> [i \in DOMAIN depsolve_items.items |->
                                              [task_id |-> Len(task_queue) + i,
                                               state |-> "PENDING"]]]
    /\ UNCHANGED <<pvars, content_configs, jvars, cvars, ubi_population_sources,
                   content_set, ubi_config, flags, debug_dep_map, out, binary_out,
                   to_save, store, store_before>>
    /\ UNCHANGED <<dvars, mvars, issued, tpc>>

\* manifest_get: 200 with the parsed value of the key, or 404
ManifestGet ==
    /\ \E repo_id \in UbiRepos \cup {"ubi_repo_1"} :
         LET got == redis_get(store, repo_id)
             value == IF got # None THEN got ELSE <<>>
         IN  /\ request' = [method |-> "GET", repo_id |-> repo_id]
             /\ response' = IF value # <<>>
                            THEN [status |-> 200, repo_id |-> repo_id,
                                  content |-> json_loads(value)]
                            ELSE [status |-> 404, repo_id |-> repo_id,
                                  content |-> <<>>]
    /\ UNCHANGED <<pvars, content_configs, task_queue, jvars, cvars, ubi_population_sources,
                   content_set, ubi_config, flags, debug_dep_map, out, binary_out,
                   to_save, store, store_before>>
    /\ UNCHANGED <<dvars, mvars, issued, tpc>>

\* _save of a second depsolve_task, lines 236-239: one key is written
OtherSaveKey ==
    /\ \E key \in other_to_save :
         /\ store' = redis_set(store, key, json_dumps(other_out[key]))
         /\ last_set' = [k \in DOMAIN last_set \cup {key} |->
                            IF k = key THEN "other" ELSE last_set[k]]
         /\ other_to_save' = other_to_save \ {key}
    /\ UNCHANGED <<pvars, avars, other_out, cvars, ubi_population_sources, content_set,
                   ubi_config, flags, debug_dep_map, out, binary_out, to_save,
                   store_before>>
    /\ UNCHANGED <<dvars, mvars, issued, tpc>>

\* a key of the store reaches ubi_manifest_data_expiration
Expire ==
    /\ \E key \in DOMAIN store :
         /\ store' = [k \in DOMAIN store \ {key} |-> store[k]]
         /\ last_set' = [k \in DOMAIN last_set \ {key} |-> last_set[k]]
    /\ UNCHANGED <<pvars, avars, other_out, other_to_save, cvars, ubi_population_sources,
                   content_set, ubi_config, flags, debug_dep_map, out, binary_out,
                   to_save, store_before>>
    /\ UNCHANGED <<dvars, mvars, issued, tpc>>

\* the content config sources of app.conf: full depsolving with a config of a
\* minor version, no depsolving of dependencies, no config at all, and flags
\* that differ
Src_ubi ==
    ContentConfig("url_or_dir_1",
                  <<LoadedConfig(V_8, "ubi_cs_0", {}),
                    LoadedConfig(V_8, "ubi_cs_1", {}),
                    LoadedConfig(V_9, "ubi_cs_2", {<<"base_pkgs_only", FALSE>>}),
                    LoadedConfig(V_8_4, "ubi_cs_3", {})>>)

Src_ct ==
    ContentConfig("url_or_dir_2",
                  <<LoadedConfig(V_8, "ct_cs_0", {<<"base_pkgs_only", TRUE>>}),
                    LoadedConfig(V_8, "ct_cs_1", {<<"base_pkgs_only", TRUE>>})>>)

Src_empty == ContentConfig("url_or_dir_3", <<>>)

Src_mixed ==
    ContentConfig("url_or_dir_4",
                  <<LoadedConfig(V_8, "ct_cs_0", {<<"base_pkgs_only", TRUE>>}),
                    LoadedConfig(V_8, "ct_cs_1", {})>>)

ContentConfigs == {<<Src_ubi>>, <<Src_ubi, Src_ct>>, <<Src_empty, Src_ct>>,
                   <<Src_ubi, Src_mixed>>, <<Src_empty>>}

\* the manifests the second task has computed, as data_for_redis holds them
OtherItem == [src_repo_id |-> "r2", unit_type |-> "RpmUnit", unit_attr |-> "filename",
              value |-> Filename(N_l, "1", A_x)]

OtherOuts == {[k \in UbiRepos |-> IF k = "u1" THEN <<OldItem, OtherItem>> ELSE <<>>],
              [k \in {"u1", "u1d"} |-> IF k = "u1" THEN <<OtherItem>> ELSE <<OldItem>>]}

\* the API runs and no depsolve_task of the model does
NoTask ==
    /\ tpc = "standalone"
    /\ issued = {}
    /\ ubi_population_sources = EmptyDict
    /\ content_set = EmptyDict
    /\ ubi_config = EmptyDict
    /\ flags = {}
    /\ debug_dep_map = <<>>
    /\ out = EmptyDict
    /\ binary_out = EmptyDict
    /\ to_save = {}
    /\ ConfigLoaderIdle
    /\ store = EmptyDict
    /\ store_before = EmptyDict
    /\ DepsolverIdle
    /\ ModularIdle

\* neither a depsolve_task nor the API runs
NothingRuns == NoTask /\ ApiIdle /\ OtherIdle

\* POST requests on their own
InitPost ==
    /\ NoTask
    /\ NoCall
    /\ content_configs \in ContentConfigs
    /\ request = NoRequest
    /\ task_queue = <<>>
    /\ response = NoResponse
    /\ OtherIdle

SpecPost == InitPost /\ [][ManifestPost]_vars

\* GET requests while a depsolve_task saves its manifests and keys expire
InitGet ==
    /\ NoTask
    /\ NoCall
    /\ ApiIdle
    /\ other_out \in OtherOuts
    /\ other_to_save = DOMAIN other_out
    /\ last_set = EmptyDict

GetNext == ManifestGet \/ OtherSaveKey \/ Expire

SpecGet == InitGet /\ [][GetNext]_vars

-----------------------------------------------------------------------------
(* Two depsolve_tasks that save to the same keys of the result store: the  *)
(* second task is at its _save while the first runs                        *)

InitRace ==
    /\ TaskStart
    /\ store = EmptyDict
    /\ \A cs \in DOMAIN ubi_config : ubi_config[cs] \in ConfigsTwice
    /\ other_out \in OtherOuts
    /\ other_to_save = DOMAIN other_out
    /\ last_set = EmptyDict

RaceNext == TaskNext \/ OtherSaveKey

SpecRace == InitRace /\ [][RaceNext]_vars

-----------------------------------------------------------------------------
(* Functions of worker/utils.py called on their own: the arguments are     *)
(* call_args, and call_result is <<>> until the call returns <<value>>     *)

\* vercmp_sort: the key compares (epoch, version, release) with label_compare
vercmp(a, b) == label_compare(a.evr, b.evr)

RECURSIVE sorted_reverse(_)
\* sorted(rpms, key=vercmp_sort(), reverse=True): descending and stable
sorted_reverse(rpms) ==
    IF rpms = <<>> THEN <<>>
    ELSE LET rest == sorted_reverse(SubSeq(rpms, 1, Len(rpms) - 1))
             x == rpms[Len(rpms)]
             k == Cardinality({i \in DOMAIN rest : vercmp(rest[i], x) >= 0})
         IN  SubSeq(rest, 1, k) \o <<x>> \o SubSeq(rest, k + 1, Len(rest))

\* (rpm.version, rpm.release), the key of allowed_ver_rel
ver_rel(rpm) == <<rpm.evr[2], rpm.evr[3]>>

\* deque(maxlen=n).append(rpm)
deque_append(deque, rpm, n) ==
    LET appended == Append(deque, rpm)
    IN  IF Len(appended) > n THEN Tail(appended) ELSE appended

\* pkgs_per_arch[rpm.arch].append(rpm); the defaultdict is the sequence of
\* its entries in insertion order
per_arch_append(pkgs_per_arch, rpm, n) ==
    IF \E i \in DOMAIN pkgs_per_arch : pkgs_per_arch[i].arch = rpm.arch
    THEN [i \in DOMAIN pkgs_per_arch |->
            IF pkgs_per_arch[i].arch = rpm.arch
            THEN [arch |-> rpm.arch,
                  deque |-> deque_append(pkgs_per_arch[i].deque, rpm, n)]
            ELSE pkgs_per_arch[i]]
    ELSE Append(pkgs_per_arch, [arch |-> rpm.arch, deque |-> deque_append(<<>>, rpm, n)])

RECURSIVE keep_loop(_, _, _, _)
\* keep_n_latest_rpms, the loop over the sorted list with its break
keep_loop(rpms, n, allowed_ver_rel, pkgs_per_arch) ==
    IF rpms = <<>> THEN pkgs_per_arch
    ELSE LET rpm == Head(rpms)
             allowed == allowed_ver_rel \cup {ver_rel(rpm)}
         IN  IF Cardinality(allowed) > n THEN pkgs_per_arch
             ELSE keep_loop(Tail(rpms), n, allowed,
                            IF ver_rel(rpm) \in allowed
                            THEN per_arch_append(pkgs_per_arch, rpm, n)
                            ELSE pkgs_per_arch)

RECURSIVE chain_deques(_)
\* list(chain.from_iterable(pkgs_per_arch.values()))
chain_deques(pkgs_per_arch) ==
    IF pkgs_per_arch = <<>> THEN <<>>
    ELSE Head(pkgs_per_arch).deque \o chain_deques(Tail(pkgs_per_arch))

\* keep_n_latest_rpms(rpms, n): the list rpms[:] is set to
keep_n_latest_rpms(rpms, n) == chain_deques(keep_loop(sorted_reverse(rpms), n, {}, <<>>))

A_noarch == <<"n", "o", "a", "r", "c", "h">>

\* the builds of one package: EVRs that differ in the epoch, in the version
\* and in the release, for two arches
Builds == {[name |-> N_g, evr |-> evr, arch |-> arch] :
           evr \in {<<0, 1, 1>>, <<0, 1, 2>>, <<0, 2, 1>>, <<1, 1, 1>>},
           arch \in {A_x, A_noarch}}

\* the longest list of RPMs
MaxRpms == 3

\* the greatest n
MaxKeep == 2

RpmLists == UNION {Orderings(S) : S \in {T \in SUBSET Builds : Cardinality(T) <= MaxRpms}}

InitKeep ==
    /\ NothingRuns
    /\ call_args \in {[fn |-> "keep_n_latest_rpms", rpms |-> rpms, n |-> n] :
                        rpms \in RpmLists, n \in 1..MaxKeep}
    /\ call_result = <<>>

\* a call that is not one of depsolve_task or of the API changes nothing else
CallFrame == UNCHANGED <<dvars, mvars, cvars, avars, jvars, ubi_population_sources,
                         content_set, ubi_config, flags, debug_dep_map, out,
                         binary_out, to_save, store, store_before, issued, tpc>>

KeepNLatest ==
    /\ call_result = <<>>
    /\ call_result' = <<keep_n_latest_rpms(call_args.rpms, call_args.n)>>
    /\ UNCHANGED call_args
    /\ CallFrame

SpecKeep == InitKeep /\ [][KeepNLatest]_vars

\* RpmDependency values over two names, every flag and EVRs that differ in
\* each component
Dependencies == {VDep(n, f, evr) : n \in {N_g, N_p},
                                   f \in {"", "GT", "GE", "EQ", "LE", "LT"},
                                   evr \in {<<0, 1, 1>>, <<0, 2, 1>>, <<1, 1, 1>>}}

InitResolved ==
    /\ NothingRuns
    /\ call_args \in {[fn |-> "is_requirement_resolved", req |-> req, provider |-> prov] :
                        req \in Dependencies,
                        prov \in {d \in Dependencies : d.flags \in {"", "EQ"}}}
    /\ call_result = <<>>

IsRequirementResolved ==
    /\ call_result = <<>>
    /\ call_result' = <<is_requirement_resolved(call_args.req, call_args.provider)>>
    /\ UNCHANGED call_args
    /\ CallFrame

SpecResolved == InitResolved /\ [][IsRequirementResolved]_vars

-----------------------------------------------------------------------------
(* _merge_output_dictionary of depsolve.py called on its own, on the lists *)
(* it is given                                                             *)

RECURSIVE append_new(_, _, _)
\* the loop over data: out[key].append(item) when item.filename is not in
\* filenames
append_new(list, data, filenames) ==
    IF data = <<>> THEN list
    ELSE append_new(IF Head(data).filename \notin filenames
                    THEN Append(list, Head(data)) ELSE list,
                    Tail(data), filenames)

\* a merge that assigned update[key] to out[key] for every key of update
_merge_overwrite(old, update) ==
    [key \in DOMAIN old \cup DOMAIN update |->
        IF key \in DOMAIN update THEN update[key] ELSE old[key]]

RECURSIVE merge_loop(_, _, _)
\* the loop over update.items()
merge_loop(old, update, keys) ==
    IF keys = <<>> THEN old
    ELSE LET key == Head(keys)
             data == update[key]
             merged ==
                 IF key \in DOMAIN old
                 THEN LET filenames == {old[key][i].filename :
                                           i \in {j \in DOMAIN old[key] :
                                                     IsRpmUnit(old[key][j])}}
                      IN  [old EXCEPT ![key] = append_new(old[key], data, filenames)]
                 ELSE [k \in DOMAIN old \cup {key} |->
                          IF k = key THEN data ELSE old[k]]
         IN  merge_loop(merged, update, Tail(keys))

\* _merge_output_dictionary(out, update) on lists: the new out
_merge_output_lists(old, update) ==
    merge_loop(old, update, CHOOSE keys \in Orderings(DOMAIN update) : TRUE)

\* the longest list of units of one key
MaxUnits == 2

\* g-1 as the repository r2 holds it
U_g1_r2 == [U_g1 EXCEPT !.repo = "r2"]

ListsOf(pool) == UNION {[1..n -> pool] : n \in 0..MaxUnits}

\* a dict of the keys u1 and u1d, each of them absent or one of the lists
DictsOf(lists, debug_lists) ==
    {[k \in ks |-> IF k = "u1" THEN l ELSE d] :
        ks \in SUBSET {"u1", "u1d"}, l \in lists, d \in debug_lists}

InitMerge ==
    /\ NothingRuns
    /\ call_args \in {[fn |-> "_merge_output_dictionary", out |-> o, update |-> u] :
                        o \in DictsOf(ListsOf({U_g1, U_g2, M_m1}), {<<U_gd1>>}),
                        u \in DictsOf(ListsOf({U_g1, U_g1_r2, U_g2}),
                                      {<<U_gd1>>, <<U_gd2>>})}
    /\ call_result = <<>>

MergeOutputDictionary ==
    /\ call_result = <<>>
    /\ call_result' = <<_merge_output_lists(call_args.out, call_args.update)>>
    /\ UNCHANGED call_args
    /\ CallFrame

SpecMerge == InitMerge /\ [][MergeOutputDictionary]_vars

-----------------------------------------------------------------------------
(* repo_monitor_task (worker/tasks/repo_monitor.py). Times are whole seconds; *)
(* a number of hours is kept as the number of seconds it is 3600 times of.   *)

SecondsPerHour == 3600
SecondsPerDay  == 86400

\* timedelta.days and timedelta.seconds of a difference of datetimes
timedelta_days(diff)    == diff \div SecondsPerDay
timedelta_seconds(diff) == diff % SecondsPerDay

\* _check_last_publish, line 45: td_hrs, times 3600
td_hrs(time_diff) ==
    (timedelta_days(time_diff) * 24 * 60) * SecondsPerHour + timedelta_seconds(time_diff)

\* _check_last_publish, lines 41-57, over the distributors left: the message
\* of the last rsync distributor over the limit, None without one
RECURSIVE check_distributors(_, _, _, _)
check_distributors(repository, distributors, limit, message) ==
    IF distributors = <<>> THEN message
    ELSE LET distributor == Head(distributors)
             time_diff == distributor.elapsed
         IN  check_distributors(
                 repository, Tail(distributors), limit,
                 IF distributor.is_rsync /\ td_hrs(time_diff) > limit * SecondsPerHour
                 THEN <<[id |-> repository.id, limit |-> limit,
                         td_hrs |-> td_hrs(time_diff)]>>
                 ELSE message)

\* _check_last_publish(repository)
_check_last_publish(repository, limit) ==
    check_distributors(repository, repository.distributors, limit, None)

\* repo_monitor_task, lines 26-33: to_log, as the list of its (id, message) items
RECURSIVE check_repos(_, _)
check_repos(monitored, limit) ==
    IF monitored = <<>> THEN <<>>
    ELSE LET result == _check_last_publish(Head(monitored), limit)
         IN  (IF result # None THEN result ELSE <<>>) \o check_repos(Tail(monitored), limit)

\* _log_findigs(to_log): the warnings logged, one per item
_log_findigs(to_log) == to_log

\* the distributors of a repository and the seconds since their last publish:
\* none, the limit of six hours and one second more, a second less than a
\* day, a day, thirty hours and a second
ElapsedTimes == {0, 21600, 21601, 86399, 86400, 108001}

Distributors == {[is_rsync |-> b, elapsed |-> e] : b \in BOOLEAN, e \in ElapsedTimes}

\* the most distributors of a repository
MaxDistributors == 2

\* app.conf.publish_limit, in hours: the default and a limit over a day
PublishLimits == {6, 30}

DistributorLists ==
    UNION {[1..n -> Distributors] : n \in 1..MaxDistributors}

MonitoredRepos ==
    {<<[id |-> "r1", distributors |-> ds]>> : ds \in DistributorLists}
    \cup {<<[id |-> "r1", distributors |-> <<d1>>], [id |-> "r2", distributors |-> <<d2>>]>> :
             d1 \in Distributors, d2 \in Distributors}

InitMonitor ==
    /\ NothingRuns
    /\ call_args \in {[fn |-> "repo_monitor_task", repos |-> rs, publish_limit |-> l] :
                        rs \in MonitoredRepos, l \in PublishLimits}
    /\ call_result = <<>>

\* repo_monitor_task(): the warnings it logs
RepoMonitorTask ==
    /\ call_result = <<>>
    /\ call_result' =
           <<_log_findigs(check_repos(call_args.repos, call_args.publish_limit))>>
    /\ UNCHANGED call_args
    /\ CallFrame

SpecMonitor == InitMonitor /\ [][RepoMonitorTask]_vars

-----------------------------------------------------------------------------
(* Properties of Depsolver.run() *)

Done == dpc = "done"

\* the names reported by _log_warnings
MissingNames == {e.name : e \in missing_log}

IsFileReq(req) == StartsWith(req.name, <<"/">>)
IsRichReq(req) == StartsWith(req.name, <<"(">>)

\* the units fetched by file name through modulemd_dependencies
ModularBypass == get_modulemd_packages(pulp_repos, modulemd_dependencies)

\* C1: after run() with base_pkgs_only = false, every plain requirement of an
\* output RPM is resolved (name and version) by a provide of some output RPM,
\* or its name is in the missing-dependency log.
C1_Closure ==
    (Done /\ ~base_pkgs_only) =>
        \A r \in output_set : \A req \in r.requires :
            (~IsFileReq(req) /\ ~IsRichReq(req)) =>
                \/ \E p \in output_set : \E prov \in p.provides :
                       prov.name = req.name /\ is_requirement_resolved(req, prov)
                \/ req.name \in MissingNames

\* C2: after run(), no output RPM other than the modular bypass is blacklisted
\* by the blacklist of any DepsolverItem of the run.
C2_NoBlacklisted ==
    Done =>
        \A u \in output_set \ ModularBypass :
            \A i \in DOMAIN repos : ~_is_blacklisted(u, repos[i].blacklist)

\* the non-modular RPMs of the input repositories of the run
NonModular(units) == {u \in units : u.filename \notin modular_rpm_filenames}

\* C3: after run() with n = 1, for every (name, arch) of non-modular output RPMs
\* there is exactly one such RPM in the output, and no non-blacklisted
\* non-modular RPM of that name and arch in an input repository is newer.
C3_LatestOnly ==
    Done =>
        \A u \in NonModular(output_set) :
            /\ \A v \in NonModular(output_set) :
                   (v.name = u.name /\ v.arch = u.arch) => v = u
            /\ \A v \in NonModular({w \in RpmStore : w.repo \in pulp_repos}) :
                   (v.name = u.name /\ v.arch = u.arch
                    /\ ~_is_blacklisted(v, merged_blacklist))
                       => label_compare(v.evr, u.evr) <= 0

\* C4: a file name that is an artifact of a modulemd of the input repositories
\* and is not among modulemd_dependencies is the file name of no output RPM.
C4_ModularFilter ==
    \A u \in output_set :
        u.filename \in _get_pkgs_from_all_modules(pulp_repos)
            => u.filename \in modulemd_dependencies

\* C4 witness: run() has ended, a modular build was kept out, and a non-modular
\* build of the same package name is in the output.
C4_Witness ==
    /\ Done
    /\ \E u \in output_set : \E v \in RpmStore :
         /\ v.repo \in pulp_repos
         /\ v.name = u.name
         /\ v.filename \in modular_rpm_filenames
         /\ v.filename \notin modulemd_dependencies
         /\ v \notin output_set
         /\ u.filename \notin modular_rpm_filenames
         /\ label_compare(v.evr, u.evr) > 0

\* the package that split_filename reads off a source file name
SourcePackage(sourcerpm) ==
    [name |-> split_filename(sourcerpm).name, arch |-> split_filename(sourcerpm).arch]

SrpmFound(r) == \E s \in srpm_output_set : s.filename = r.sourcerpm

SrpmExists(r) ==
    \E s \in RpmStore : s.repo \in srpm_repos /\ s.filename = r.sourcerpm

\* C5: every output RPM with a sourcerpm has that SRPM in the source
\* output, or the package name of the sourcerpm matches a blacklist entry.
C5_SrpmBackfill ==
    Done =>
        \A r \in output_set :
            r.sourcerpm # <<>> =>
                \/ SrpmFound(r)
                \/ _is_blacklisted(SourcePackage(r.sourcerpm), merged_blacklist)

\* C5, amended: every output RPM with a sourcerpm has that SRPM in the source
\* output, or the package of the sourcerpm matches the merged blacklist, or
\* the source repositories of the run hold no RPM of that file name.
C5_SrpmBackfillAmended ==
    Done =>
        \A r \in output_set :
            r.sourcerpm # <<>> =>
                \/ SrpmFound(r)
                \/ _is_blacklisted(SourcePackage(r.sourcerpm), merged_blacklist)
                \/ ~SrpmExists(r)

\* C5 witness: run() has ended with one SRPM found, one kept out by the
\* blacklist and one that the source repositories do not hold.
C5_Witness ==
    /\ Done
    /\ \E r \in output_set : r.sourcerpm # <<>> /\ SrpmFound(r)
    /\ \E r \in output_set :
         /\ r.sourcerpm # <<>> /\ ~SrpmFound(r) /\ SrpmExists(r)
         /\ _is_blacklisted(SourcePackage(r.sourcerpm), merged_blacklist)
    /\ \E r \in output_set : r.sourcerpm # <<>> /\ ~SrpmExists(r)

\* C6: after run() with base_pkgs_only = false, every file requirement of an
\* output RPM is listed in the files or provides of some output RPM, or is in
\* the missing-dependency log.
C6_FileClosure ==
    (Done /\ ~base_pkgs_only) =>
        \A r \in output_set : \A req \in r.requires :
            IsFileReq(req) =>
                \/ \E p \in output_set :
                       req.name \in p.files \/ req.name \in {x.name : x \in p.provides}
                \/ req.name \in MissingNames

-----------------------------------------------------------------------------
(* Properties of ModularDepsolver.run() *)

ModularDone == mpc = "done"

\* C7: after ModularDepsolver.run(), all emitted modules of one name and stream
\* carry the same version, and it is the greatest version of that name:stream
\* in the input repositories of the run.
C7_OneVersionPerStream ==
    ModularDone =>
        \A a \in Range(modules) :
            /\ \A b \in Range(modules) :
                   (a.name = b.name /\ a.stream = b.stream) => a.version = b.version
            /\ \A u \in ModuleStore :
                   (u.repo \in _input_repos /\ u.name = a.name /\ u.stream = a.stream)
                       => u.version <= a.version

-----------------------------------------------------------------------------
(* Properties of depsolve_task *)

\* C8: a binary RPM query is issued only after the modulemd depsolver has
\* finished, a debug RPM query only after the binary depsolve has finished, and
\* an SRPM lookup only after the debug depsolve has finished.
C8_PhaseOrder ==
    \A q \in issued :
        /\ q[1] = "rpm" => q[2] \in {"binary", "debug"}
        /\ q[1] \in {"modulemd", "modulemd_defaults"} => q[2] \in {"modulemd", "binary", "debug"}
        /\ q[1] = "srpm" => q[2] \notin {"modulemd", "binary", "debug"}

\* the flag dictionaries of the configs the task collects
CollectedFlags == Range(depsolver_flags)

FlagsDiffer == \E a, b \in CollectedFlags : a # b

\* no depsolver has been started and nothing was asked of the content store
NothingStarted == mpc = "idle" /\ dpc = "idle" /\ issued = {}

\* C9: when two collected flag dictionaries differ, the task ends with
\* InconsistentDepsolverConfig before a depsolver is started, the store
\* unchanged; when all are equal, it does not, and the common flags drive
\* every depsolver pass.
C9_FlagValidation ==
    tpc \notin {"start", "failed"} =>
        IF FlagsDiffer
        THEN tpc = "inconsistent" /\ NothingStarted /\ store = store_before
        ELSE /\ tpc # "inconsistent"
             /\ flags \in CollectedFlags
             /\ dpc # "idle" => base_pkgs_only = FlagGet(flags, "base_pkgs_only")

\* C9 witness: the task has ended with InconsistentDepsolverConfig on two flag
\* dictionaries that differ only in their key sets.
C9_Witness ==
    /\ tpc = "inconsistent"
    /\ \E a, b \in CollectedFlags :
         /\ a # b
         /\ FlagGet(a, "base_pkgs_only") = FlagGet(b, "base_pkgs_only")
    /\ store # EmptyDict

\* C10: when a search of the content store fails, the task fails, and the
\* result store of a failed task is the store of before the task; the store
\* is written only once every search has been answered.
C10_FailureLeavesStore ==
    /\ (dpc = "failed" \/ mpc = "failed") => tpc = "failed"
    /\ tpc = "failed" => store = store_before
    /\ store # store_before => tpc \in {"save", "done"}

\* C10 witness: an SRPM search of the debug pass has failed, after the binary
\* pass had found RPMs, and the store holds what it held before.
C10_Witness ==
    /\ tpc = "failed"
    /\ dpc = "failed"
    /\ <<"srpm", "debug">> \in issued
    /\ \E k \in DOMAIN out : \E u \in out[k] : IsRpmUnit(u)
    /\ store # EmptyDict

-----------------------------------------------------------------------------
(* Properties of the result store *)

\* C11: after a successful depsolve_task the result store holds a key for the
\* requested binary output repository and for its debuginfo and source
\* repositories, also for one whose population-source list is empty
C11_AllKeys == tpc = "done" => UbiRepos \subseteq DOMAIN store

\* the second of two runs of depsolve_task has returned
SecondDone == tpc = "done" /\ store_before # EmptyDict

\* C12: running depsolve_task twice on the same content store, configuration
\* and repo ids writes equal values for every output repo id: the entries and
\* their order in each persisted list are those of the first run
C12_ByteEqual == SecondDone => store = store_before

-----------------------------------------------------------------------------
(* Termination *)

\* run() has returned or raised
Returned == dpc \in {"done", "failed"}

\* C13: Depsolver.run() with base_pkgs_only = false terminates, whatever the
\* content store and the whitelist: RPMs that require each other and versioned
\* requirements that no provider satisfies included
C13_RunTerminates == ~base_pkgs_only => <>Returned

\* ModularDepsolver.run() has returned or raised
ModularReturned == mpc \in {"done", "failed"}

\* _depsolve_modules calls itself
Recursion == mpc = "depsolve" /\ mpc' = "depsolve"

\* searched_modules has a dependency more than before
NewlySearched ==
    /\ searched_modules.without_stream \subseteq searched_modules'.without_stream
    /\ searched_modules.with_stream \subseteq searched_modules'.with_stream
    /\ searched_modules' # searched_modules

\* C14: ModularDepsolver.run() terminates on every module dependency graph,
\* graphs with cycles included: _depsolve_modules calls itself only for
\* dependencies that searched_modules did not hold yet
C14_ModularTerminates ==
    /\ <>ModularReturned
    /\ [][Recursion => NewlySearched]_vars

\* run() has returned after it met the cycle m:1 -> n -> m:1
C14_Witness ==
    /\ mpc = "done"
    /\ M_m1 \in Range(modules)
    /\ M_n1 \in Range(modules)

-----------------------------------------------------------------------------
(* Properties of Depsolver.run() with base_pkgs_only *)

\* the RPMs an item whitelists by name in its repositories, neither modular
\* nor blacklisted by the item
Whitelisted(item) ==
    {u \in RpmStore : /\ u.repo \in item.in_pulp_repos
                      /\ u.name \in item.whitelist
                      /\ u.filename \notin _get_pkgs_from_all_modules(pulp_repos)
                      /\ ~_is_blacklisted(u, item.blacklist)}

\* those of them that have no newer one of their name and arch
LatestWhitelisted(item) ==
    {u \in Whitelisted(item) :
        \A v \in Whitelisted(item) :
            (v.name = u.name /\ v.arch = u.arch) => label_compare(v.evr, u.evr) <= 0}

\* C15: with base_pkgs_only = true run() makes no closure pass: the loop that
\* calls what_provides is never entered, provides, requires and unsolved stay
\* empty, output_set is exactly the latest non-blacklisted non-modular
\* whitelisted RPMs of each item plus the RPMs pinned by modulemd_dependencies,
\* and every unit of srpm_output_set is the SRPM of one of those RPMs
C15_BasePkgsOnly ==
    base_pkgs_only =>
        /\ dpc # "loop"
        /\ provides = {} /\ requires = {} /\ unsolved = {}
        /\ Done =>
              /\ output_set = UNION {LatestWhitelisted(repos[i]) : i \in DOMAIN repos}
                                  \cup ModularBypass
              /\ \A s \in srpm_output_set :
                     \E u \in output_set : u.sourcerpm = s.filename

\* run() has ended with base_pkgs_only, and an output RPM requires something
\* that an RPM of the input repositories provides and no output RPM does
C15_Witness ==
    /\ Done
    /\ base_pkgs_only
    /\ srpm_output_set # {}
    /\ \E u \in output_set : \E req \in u.requires :
         /\ \E v \in RpmStore : v.repo \in pulp_repos
                                  /\ \E prov \in v.provides : prov.name = req.name
         /\ ~\E v \in output_set : \E prov \in v.provides : prov.name = req.name

-----------------------------------------------------------------------------
(* Properties of Depsolver.export() *)

\* export() has returned
Exported == dpc = "exported"

\* C16: export() returns, for every (filename, source repository) pair of a
\* unit of output_set or srpm_output_set, exactly one unit of that file name
\* in the list of that repository, and nothing else: duplicates within a
\* repository are collapsed, the same RPM under two repositories is kept
\* under each, and no pair is lost
C16_ExportDedup ==
    Exported =>
        LET units == output_set \cup srpm_output_set
        IN  /\ DOMAIN exported = {u.repo : u \in units}
            /\ \A k \in DOMAIN exported : \A i \in DOMAIN exported[k] :
                   exported[k][i] \in units /\ exported[k][i].repo = k
            /\ \A u \in units :
                   Cardinality({i \in DOMAIN exported[u.repo] :
                                   exported[u.repo][i].filename = u.filename}) = 1

\* export() has returned; two units of one file name and one repository
\* were collapsed, and a unit held under two repositories is in both lists
C16_Witness ==
    /\ Exported
    /\ \E u, v \in output_set : u # v /\ ExportKey(u) = ExportKey(v)
    /\ \E u, v \in output_set : u.repo # v.repo /\ u.filename = v.filename
    /\ \E u, v \in srpm_output_set : u.repo # v.repo /\ u.filename = v.filename

-----------------------------------------------------------------------------
(* Properties of get_content_config *)

\* the configs of the loader of one version that hold the pair of a query
Registered(query, version) ==
    {c \in Range(all_config) :
        c.version = version /\ <<query[1], query[2]>> \in Range(_content_sets(c))}

\* the part of a version before its first "."
BeforeDot(version) ==
    IF Contains(version, ".")
    THEN SubSeq(version, 1, CHOOSE i \in 0..Len(version) :
                                /\ version[i + 1] = "."
                                /\ \A j \in 1..i : version[j] # ".")
    ELSE version

\* C17: get_content_config returns a config registered for exactly the
\* version asked for when one holds (input_cs, output_cs); otherwise one of the
\* major version, the part before the first "."; when there is neither it
\* raises ContentConfigMissing and the job fails with the store untouched. A
\* config it returns holds (input_cs, output_cs).
C17_ContentConfig ==
    config_query # <<>> =>
        LET exact == Registered(config_query, config_query[3])
            major == Registered(config_query, BeforeDot(config_query[3]))
        IN  /\ exact # {} => config_out # None /\ config_out[1] \in exact
            /\ exact = {} /\ major # {} => config_out # None /\ config_out[1] \in major
            /\ exact = {} /\ major = {} =>
                   config_out = None /\ tpc = "failed" /\ store = store_before
            /\ config_out # None => tpc = "start"

\* a call has fallen back to the config of the major version, and the
\* loader holds a config of another minor version for the same content sets
C17_Witness ==
    /\ config_query # <<>>
    /\ Contains(config_query[3], ".")
    /\ config_out # None
    /\ config_out[1].version # config_query[3]
    /\ \E c \in Range(all_config) :
         c.version \notin {config_query[3], config_out[1].version}

-----------------------------------------------------------------------------
(* Properties of the API *)

\* the configs of a source the API uses: those of major versions
MajorConfigs(source) == {conf \in Range(source.configs) : ~Contains(conf.version, ".")}

\* the populated repositories of the output content set of a config
Populated(conf) ==
    {r \in Range(PulpRepositories) : r.ubi_population /\ r.content_set = conf.output}

\* the repo groups of a source: every populated repository on its own when the
\* source asks for base packages only, else the populated repositories of one
\* version and one arch together
RepoGroups(source) ==
    LET confs == MajorConfigs(source)
        all == UNION {Populated(conf) : conf \in confs}
    IN  IF \E conf \in confs : FlagGet(conf.flags, "base_pkgs_only")
        THEN {{r.id} : r \in all}
        ELSE {{r.id : r \in {q \in UNION {Populated(conf) :
                                             conf \in {c \in confs : c.version = v}} :
                                q.arch = a}} :
              v \in {conf.version : conf \in confs},
              a \in {r.arch : r \in all}} \ {{}}

\* the flags of the configs of some source disagree
FlagInconsistent ==
    \E source \in Range(content_configs) :
        \E c1, c2 \in MajorConfigs(source) :
            FlagGet(c1.flags, "base_pkgs_only") # FlagGet(c2.flags, "base_pkgs_only")

\* the groups that hold a requested id, each with the url of its source
WantedGroups(ids) ==
    UNION {{<<source.source, g>> : g \in {h \in RepoGroups(source) : h \cap ids # {}}} :
           source \in Range(content_configs)}

\* what manifest_post owes for the request it has answered
PostContract ==
    LET ids == Range(request'.repo_ids)
        enqueued == SubSeq(task_queue', Len(task_queue) + 1, Len(task_queue'))
        wanted == WantedGroups(ids)
    IN  /\ SubSeq(task_queue', 1, Len(task_queue)) = task_queue
        /\ response'.status = 400 <=> ids = {}
        /\ ~FlagInconsistent => (response'.status = 404 <=> ids # {} /\ wanted = {})
        /\ response'.status # 201 => enqueued = <<>>
        /\ response'.status = 201 =>
              /\ Len(response'.tasks) = Len(enqueued)
              /\ \A w \in wanted :
                    Cardinality({i \in DOMAIN enqueued :
                                   /\ enqueued[i].url = w[1]
                                   /\ Range(enqueued[i].repo_group) = w[2]}) = 1
              /\ \A i \in DOMAIN enqueued :
                    <<enqueued[i].url, Range(enqueued[i].repo_group)>> \in wanted

\* C18: POST /api/v1/manifest answers 400 to an empty repo_ids list and 404
\* when no repo group holds a requested id, and enqueues nothing in both
\* cases; otherwise it enqueues exactly one task for each distinct repo group
\* that holds at least one requested id, the task covers the whole group, and
\* ids of no group are skipped.
C18_ManifestPost == [][PostContract]_vars

\* a step of manifest_get
GetStep == request'.method = "GET" /\ UNCHANGED store

\* C19: GET /api/v1/manifest/{repo_id} answers 404 exactly when the store
\* holds no value for repo_id, never written or expired; when a depsolve task
\* has stored a manifest it answers 200 with exactly the entries the task
\* stored, and the empty manifest gives 200 with an empty content.
C19_ManifestGet ==
    [][GetStep =>
         LET repo_id == request'.repo_id
         IN  /\ response'.status = 404 <=> repo_id \notin DOMAIN store
             /\ repo_id \in DOMAIN store =>
                   /\ response'.status = 200
                   /\ response'.repo_id = repo_id
                   /\ response'.content = other_out[repo_id]]_vars

\* C19 witness: the GET of a repository whose stored manifest is empty was
\* answered with 200 and no entries.
C19_Witness ==
    /\ request.method = "GET"
    /\ request.repo_id \in DOMAIN store
    /\ other_out[request.repo_id] = <<>>
    /\ response.status = 200
    /\ response.content = <<>>

\* both depsolve_tasks have returned
BothSaved == tpc = "done" /\ other_out # EmptyDict /\ other_to_save = {}

\* the values the first task can write for a key: the manifest it computed
TaskManifests(key) ==
    {json_dumps(data_for_redis([d \in {key} |-> units])[key]) : units \in out_lists(key)}

\* C20: when two depsolve tasks that save to the same output repository id
\* run concurrently, the value of the id after both have returned is the
\* complete manifest of the task whose write of that key came last, in every
\* interleaving; it is never a mixture of both and never a part of a list.
C20_LastWriterWins ==
    BothSaved =>
        \A key \in DOMAIN store :
            IF last_set[key] = "other"
            THEN store[key] = json_dumps(other_out[key])
            ELSE store[key] \in TaskManifests(key)

\* C20 witness: both tasks have returned, each wrote some key last, and a key
\* the first task wrote last holds a manifest that differs from the second's.
C20_Witness ==
    /\ BothSaved
    /\ \E key \in DOMAIN store \cap DOMAIN other_out :
          last_set[key] = "task" /\ store[key] # json_dumps(other_out[key])
    /\ \E key \in DOMAIN store \cap DOMAIN out : last_set[key] = "other"

-----------------------------------------------------------------------------
(* Properties of the functions of worker/utils.py *)

\* the value a call returned
Returns(fn) == call_args # <<>> /\ call_args.fn = fn /\ call_result # <<>>

\* the n greatest distinct EVRs of a list
TopEvrs(rpms, n) ==
    LET evrs == {u.evr : u \in Range(rpms)}
    IN  {e \in evrs : Cardinality({f \in evrs : label_compare(f, e) > 0}) < n}

\* C21: keep_n_latest_rpms(rpms, n) keeps only RPMs whose EVR is among the n
\* greatest distinct EVRs of the list, at most n per arch; with n = 1 every
\* survivor has the greatest EVR of the whole list, epoch included, and there
\* is exactly one survivor for each arch that has a build of that EVR.
C21_KeepNLatest ==
    Returns("keep_n_latest_rpms") =>
        LET rpms == call_args.rpms
            n == call_args.n
            kept == call_result[1]
            top == TopEvrs(rpms, n)
        IN  /\ \A i \in DOMAIN kept : kept[i] \in Range(rpms) /\ kept[i].evr \in top
            /\ \A i, j \in DOMAIN kept : i # j => kept[i] # kept[j]
            /\ \A u \in Range(rpms) :
                  Cardinality({w \in Range(kept) : w.arch = u.arch}) <= n
            /\ n = 1 =>
                  \A u \in Range(rpms) :
                      Cardinality({w \in Range(kept) : w.arch = u.arch})
                          = IF \E v \in Range(rpms) : v.arch = u.arch /\ v.evr \in top
                            THEN 1 ELSE 0

RpmFilenames(list) == {list[i].filename : i \in {j \in DOMAIN list : IsRpmUnit(list[j])}}

\* C23: _merge_output_dictionary(out, update) never removes or replaces
\* anything in out: every unit of out[key] stays in place and in order, from
\* update[key] only units whose filename is not an RPM filename of out[key]
\* are appended, and a key absent from out is added with the list of update.
C23_MergeKeepsOut ==
    Returns("_merge_output_dictionary") =>
        LET old == call_args.out
            update == call_args.update
            new == call_result[1]
        IN  /\ DOMAIN new = DOMAIN old \cup DOMAIN update
            /\ \A key \in DOMAIN old :
                  /\ Len(new[key]) >= Len(old[key])
                  /\ SubSeq(new[key], 1, Len(old[key])) = old[key]
                  /\ \A i \in (Len(old[key]) + 1)..Len(new[key]) :
                        /\ key \in DOMAIN update
                        /\ new[key][i] \in Range(update[key])
                        /\ new[key][i].filename \notin RpmFilenames(old[key])
            /\ \A key \in DOMAIN update \ DOMAIN old : new[key] = update[key]

\* C23 witness: a merge of a key both dicts hold in which one unit of update
\* was skipped for its filename and another was appended after a module and
\* an RPM of out, together with a key that only update holds.
C23_Witness ==
    /\ Returns("_merge_output_dictionary")
    /\ call_args.out = [k \in {"u1"} |-> <<M_m1, U_g1>>]
    /\ call_args.update = [k \in {"u1", "u1d"} |->
                              IF k = "u1" THEN <<U_g1_r2, U_g2>> ELSE <<U_gd2>>]
    /\ call_result[1] = [k \in {"u1", "u1d"} |->
                            IF k = "u1" THEN <<M_m1, U_g1, U_g2>> ELSE <<U_gd2>>]

-----------------------------------------------------------------------------
(* Properties of the fixpoint loop of Depsolver.run() *)

\* C24: in the fixpoint loop of run() the to_resolve handed to the next sweep
\* holds only units that were not in output_set before the sweep's query, so
\* no RPM is passed to extract_and_resolve twice (output_set is the union of
\* every to_resolve extracted so far) and no popped requirement comes back
C24_ToResolveIsNew ==
    [][(dpc = "loop" /\ dpc' = "loop") => to_resolve' \cap output_set = {}]_vars

\* the names the log of run() reports, by kind
Reported(kind) == {entry.name : entry \in {e \in missing_log : e.blacklisted = kind}}

\* a name that matches a rule of the merged blacklist
MatchesBlacklist(item) ==
    \E rule \in merged_blacklist :
        IF rule.globbing THEN StartsWith(item, rule.name) ELSE item = rule.name

\* the names required by an RPM that went through extract_and_resolve and
\* provided by none
UnprovidedNames == {req.name : req \in requires} \ {prov.name : prov \in provides}

\* run() has returned after a full dependency resolution
RunReturned == dpc = "done" /\ ~base_pkgs_only

\* C25: a requirement that no RPM provides does not fail run(): when run()
\* returns with base_pkgs_only false nothing is left unsolved, every required
\* name that no collected provide carries is in the log, as blacklisted when
\* it matches a rule of the blacklist and as not found otherwise, and no step
\* of run() takes an RPM out of output_set
C25_MissingIsLogged ==
    /\ [](RunReturned =>
            /\ unsolved = {}
            /\ Reported(TRUE) = {item \in UnprovidedNames : MatchesBlacklist(item)}
            /\ Reported(FALSE) = {item \in UnprovidedNames : ~MatchesBlacklist(item)})
    /\ [][output_set \subseteq output_set']_vars

\* run() returned with a blacklisted and a not found name logged, the RPMs
\* that require them still in output_set
C25_Witness ==
    /\ RunReturned
    /\ Reported(TRUE) # {}
    /\ Reported(FALSE) # {}
    /\ \A entry \in missing_log :
          \E rpm \in output_set : \E item \in rpm.requires : item.name = entry.name

-----------------------------------------------------------------------------
(* Properties of ModularDepsolver.export() *)

\* the units of every list of export()["modules_out"], one entry per position
ExportedUnits ==
    UNION {{<<k, i>> : i \in DOMAIN export_modules_out[k]} : k \in DOMAIN export_modules_out}

IsModulemd(u) == "version" \in DOMAIN u

ExportedModulemds == {p \in ExportedUnits : IsModulemd(export_modules_out[p[1]][p[2]])}
ExportedDefaults  == {p \in ExportedUnits : ~IsModulemd(export_modules_out[p[1]][p[2]])}

ExportedAt(p) == export_modules_out[p[1]][p[2]]

\* C26: export() returns in modules_out at most one modulemd per nsvca and at
\* most one modulemd-defaults unit per name:stream, whatever has accumulated in
\* modules and default_modulemds, and every nsvca and every name:stream of
\* the two lists appears
C26_ExportUnique ==
    /\ \A p, q \in ExportedModulemds :
          nsvca(ExportedAt(p)) = nsvca(ExportedAt(q)) => p = q
    /\ \A p, q \in ExportedDefaults :
          NameStream(ExportedAt(p).name, ExportedAt(p).stream)
              = NameStream(ExportedAt(q).name, ExportedAt(q).stream) => p = q
    /\ {nsvca(ExportedAt(p)) : p \in ExportedModulemds}
          = {nsvca(m) : m \in Range(modules)}
    /\ {NameStream(ExportedAt(p).name, ExportedAt(p).stream) : p \in ExportedDefaults}
          = {NameStream(d.name, d.stream) : d \in Range(default_modulemds)}

\* the part of C26 about modulemds
ExportUniqueModulemds ==
    /\ \A p, q \in ExportedModulemds :
          nsvca(ExportedAt(p)) = nsvca(ExportedAt(q)) => p = q
    /\ {nsvca(ExportedAt(p)) : p \in ExportedModulemds}
          = {nsvca(m) : m \in Range(modules)}

-----------------------------------------------------------------------------
(* Properties of ModularDepsolver.rpm_dependencies *)

\* the profiles the whitelist names for the name:stream of a module
NamedProfiles(module) == _profiles(NameStream(module.name, module.stream))

\* the package names that the named profiles of a module list
ProfilePackages(module) ==
    UNION {IF DOMAIN module.profiles # {} /\ profile \in DOMAIN module.profiles
           THEN module.profiles[profile] ELSE {} : profile \in NamedProfiles(module)}

\* the artifacts of a kept module that C27 has in rpm_dependencies
WantedArtifacts(module) ==
    {pkg \in module.artifacts_filenames :
        /\ ~EndsWith(pkg, SrcRpm)
        /\ NamedProfiles(module) # {} => split_filename(pkg).name \in ProfilePackages(module)}

\* C27: rpm_dependencies holds, of every module kept in modules, the
\* artifacts whose package name one of the profiles named by the whitelist
\* lists (none when those profiles list no package), all artifacts when the
\* whitelist names no profile, never a source RPM, and nothing else
C27_ProfileArtifacts ==
    rpm_dependencies = UNION {WantedArtifacts(m) : m \in Range(modules)}

\* the whitelist names no profile, or the profiles it names list a package
ProfilesListPackages ==
    \A m \in Range(modules) : NamedProfiles(m) # {} => ProfilePackages(m) # {}

\* C27 where every named profile set lists at least one package
ProfileArtifactsWhenListed == ProfilesListPackages => C27_ProfileArtifacts

-----------------------------------------------------------------------------
(* Properties of the debug whitelists of depsolve_task *)

\* the debuginfo and debugsource names of the RPMs with a source RPM that a
\* dictionary holds for the output repository u1
GuessedNames(output_dict) ==
    IF "u1" \notin DOMAIN output_dict THEN {}
    ELSE UNION {{r.name \o DashDebuginfo,
                 split_filename(r.sourcerpm).name \o DashDebugsource} :
                r \in {x \in output_dict["u1"] : IsRpmUnit(x) /\ x.sourcerpm # <<>>}}

\* the debuginfo whitelist that the config gives the i-th debug DepsolverItem
ConfiguredDebugWhitelist(i) == debug_dep_map_built[i].whitelist

\* the step of depsolve_task from the binary pass to the debug pass
BinaryToDebug == tpc = "binary" /\ tpc' = "debug"

\* the RPMs of the manifest of the debug output repository
DebugManifestRpms ==
    IF "u1d" \in DOMAIN out THEN {x \in out["u1d"] : IsRpmUnit(x)} ELSE {}

\* C28: between the binary pass and the debug pass the whitelist of every
\* debug DepsolverItem keeps its configured entries and, when base_pkgs_only is
\* false, gains <name>-debuginfo and <source name>-debugsource of every RPM
\* with a source RPM resolved for the output repository; when base_pkgs_only
\* is true the whitelists are the configured ones and every RPM of the debug
\* manifest is a configured package or a modular dependency
C28_DebugWhitelist ==
    /\ [][BinaryToDebug =>
            \A i \in DOMAIN debug_dep_map' :
               /\ ConfiguredDebugWhitelist(i) \subseteq debug_dep_map'[i].whitelist
               /\ repos'[i].whitelist = debug_dep_map'[i].whitelist
               /\ IF FlagGet(flags, "base_pkgs_only")
                  THEN debug_dep_map'[i].whitelist = ConfiguredDebugWhitelist(i)
                  ELSE debug_dep_map'[i].whitelist
                           = ConfiguredDebugWhitelist(i) \cup GuessedNames(out')]_vars
    /\ []((tpc \in {"save", "done"} /\ FlagGet(flags, "base_pkgs_only")) =>
            \A x \in DebugManifestRpms :
               \/ \E i \in DOMAIN debug_dep_map : x.name \in ConfiguredDebugWhitelist(i)
               \/ x.filename \in rpm_dependencies)

\* the debug pass starts with a whitelist that holds a guessed name next to
\* the configured ones
C28_Witness ==
    /\ tpc = "debug"
    /\ ~FlagGet(flags, "base_pkgs_only")
    /\ \E i \in DOMAIN debug_dep_map :
          /\ ConfiguredDebugWhitelist(i) # {}
          /\ debug_dep_map[i].whitelist \ ConfiguredDebugWhitelist(i) # {}
          /\ GuessedNames(out) \subseteq debug_dep_map[i].whitelist
          /\ GuessedNames(out) # {}

-----------------------------------------------------------------------------
(* Properties of repo_monitor_task *)

\* the repositories a run of repo_monitor_task warned about
Warned == {call_result[1][i].id : i \in DOMAIN call_result[1]}

\* a repository has an rsync distributor whose last publish is more than
\* publish_limit hours old
PublishOverdue(repository, limit) ==
    \E i \in DOMAIN repository.distributors :
        /\ repository.distributors[i].is_rsync
        /\ repository.distributors[i].elapsed > limit * SecondsPerHour

\* C29: repo_monitor_task logs the warning for a repository exactly when the
\* time since the last publish of one of its rsync distributors, in hours, is
\* more than publish_limit, whatever the time is, a day or more included
C29_PublishLimit ==
    Returns("repo_monitor_task") =>
        \A i \in DOMAIN call_args.repos :
            call_args.repos[i].id \in Warned
                <=> PublishOverdue(call_args.repos[i], call_args.publish_limit)

\* C29 for the times of less than a day
PublishLimitWithinDay ==
    (\A i \in DOMAIN call_args.repos : \A j \in DOMAIN call_args.repos[i].distributors :
        call_args.repos[i].distributors[j].elapsed < SecondsPerDay)
    => C29_PublishLimit

-----------------------------------------------------------------------------
(* Properties of the source repositories of the persisted entries *)

\* the keys _save has written in this run of depsolve_task
SavedKeys == IF tpc \in {"save", "done"} THEN DOMAIN out \ to_save ELSE {}

\* the entries persisted under a key
PersistedEntries(key) == Range(json_loads(store[key]))

\* the dictionary the task is about to hand to remap_keys, if any
ToRemap ==
    IF tpc = "modulemd" /\ mpc = "done" THEN DOMAIN modules_out
    ELSE IF tpc \in {"binary", "debug"} /\ dpc = "done" THEN DOMAIN export
    ELSE {}

=============================================================================
